---- MODULE Spec2Model ----
(***************************************************************************)
(* Vayubox transfer engine: the transfer tracker (TransferContext), the    *)
(* upload engine (enhancedS3Service.uploadToS3Enhanced / uploadLargeFile), *)
(* the resumable multipart upload (s3Service.resumeMultipartUpload), the   *)
(* archive restore engine (glacierService.restoreFromGlacier and           *)
(* restoreFromGlacierBulk), the download engines (getS3DownloadUrlEnhanced *)
(* and downloadFolderEnhanced), the pure helpers getOptimalChunkSize and   *)
(* cleanPath, the tracker's localStorage persistence across reloads, and   *)
(* the resumable transfer state store with s3Service.resumableDownload.    *)
(*                                                                         *)
(* Conventions.                                                            *)
(*  - File sizes are counted in MiB: every size constant of the upload     *)
(*    engine is a whole number of MiB.  Byte counts of the tracker are     *)
(*    plain integers.                                                      *)
(*  - Date.now() is the variable now; an id is Date.now().toString(),      *)
(*    which is injective on integers, so an id is kept as the integer.     *)
(*  - JS undefined / null in a numeric field is Undefined; an absent       *)
(*    string field is "".                                                  *)
(*  - Math.round((a / b) * 100) is computed over the rationals.            *)
(*  - The write-only timestamps startTime, completedAt, errorAt, pausedAt  *)
(*    are never read by the tracker or the engines and are left out.       *)
(***************************************************************************)
EXTENDS Integers, Sequences, FiniteSets, TLC

VARIABLES
  transfers,        \* useState([]) : the registry, a list of Transfer records
  pausedTransfers,  \* useState({}) : id -> paused snapshot
  ctxPaused,        \* pausedTransfers as captured by resumeTransfer's closure at the last render
  stored,           \* localStorage['pausedTransfers']
  now,              \* Date.now()
  ticks,            \* number of clock advances so far (caps the clock)
  calls,            \* number of tracker calls made so far by the UI and free-running callbacks (caps the run)
  ret,              \* what the last tracker call returned to its caller
  up,               \* the frame of a running uploadToS3Enhanced call
  lf,               \* the frame of a running uploadLargeFile / resumeMultipartUpload call
  store,            \* the object store's view of the multipart session and the requests it received
  activity,         \* the calls received by logActivity
  rs,               \* the frame of a running restoreFromGlacier call
  dl,               \* the frame of a running getS3DownloadUrlEnhanced call
  fd,               \* the frame of a running downloadFolderEnhanced call
  bk,               \* the frame of a running restoreFromGlacierBulk call
  fx,               \* a call of one of the pure helpers: its arguments and results
  rd,               \* the frame of a running resumableDownload call
  pending,          \* localStorage['pendingUploads'] and localStorage['pendingDownloads']
  rs2               \* the frame of a second restoreFromGlacier call running beside the first

vars == <<transfers, pausedTransfers, ctxPaused, stored, now, ticks, calls, ret, up, lf, store, activity, rs,
          dl, fd, bk, fx, rd, pending, rs2>>

trackerVars == <<transfers, pausedTransfers, ctxPaused, stored, now, ticks, calls, ret>>
resumeVars == <<rd, pending, rs2>>
batchVars == <<dl, fd, bk, fx, resumeVars>>
engineVars == <<up, lf, store, activity, rs, batchVars>>

----------------------------------------------------------------------------
(* Bounds and input domains *)

MaxTransfers == 2
MaxTicks == 2
MaxCalls == 4
T0 == 1000
Undefined == -1
NoId == 0

TickSteps == {1, 501}

(* Math.round(n / d) for d > 0: round half up, also for negative n *)
Round(n, d) == (2 * n + d) \div (2 * d)

NoMsg == [src |-> "", part |-> 0, attempt |-> 0]
Msg(s, p, k) == [src |-> s, part |-> p, attempt |-> k]

----------------------------------------------------------------------------
(* Transfer tracker: src/unnamed/part_006 (contexts/TransferContext) *)

(* the descriptor passed to addTransfer; a field the caller omits is
   "" / Undefined / FALSE / NoId *)
Descriptor(name, type, size, key, status) ==
  [name |-> name, type |-> type, size |-> size, key |-> key, status |-> status,
   loaded |-> Undefined, resumed |-> FALSE, originalId |-> NoId]

(* the record addTransfer builds: defaults first, then the descriptor's fields *)
NewTransfer(id, t, desc) ==
  [id |-> id,
   progress |-> 0,
   status |-> IF desc.status = "" THEN "in_progress" ELSE desc.status,
   bytesPerSecond |-> 0,
   estimatedTimeRemaining |-> Undefined,
   lastUpdateTime |-> t,
   lastBytes |-> 0,
   name |-> desc.name,
   type |-> desc.type,
   size |-> desc.size,
   key |-> desc.key,
   loaded |-> desc.loaded,
   total |-> Undefined,
   resumed |-> desc.resumed,
   originalId |-> desc.originalId,
   error |-> NoMsg]

(* const id = Date.now().toString() *)
NewId(t) == t

addTransfer(trs, t, desc) == Append(trs, NewTransfer(NewId(t), t, desc))

(* updates: status "" and progress Undefined mean the key is absent *)
ApplyUpdates(tr, upd) ==
  [tr EXCEPT !.status = IF upd.status = "" THEN @ ELSE upd.status,
             !.progress = IF upd.progress = Undefined THEN @ ELSE upd.progress]

updateTransfer(trs, id, upd) ==
  [i \in DOMAIN trs |-> IF trs[i].id = id THEN ApplyUpdates(trs[i], upd) ELSE trs[i]]

(* a plausible slip: truncating instead of rounding *)
ProgressTruncated(loaded, total) == (100 * loaded) \div total

(* Math.round((loaded / total) * 100) *)
Progress(loaded, total) == Round(100 * loaded, total)

ProgressOne(tr, loaded, total, t) ==
  LET timeElapsed == t - tr.lastUpdateTime
      recompute == timeElapsed > 500
      bps == IF recompute
             THEN Round((loaded - tr.lastBytes) * 1000, timeElapsed)
             ELSE tr.bytesPerSecond
      eta == IF recompute /\ bps > 0
             THEN Round(total - loaded, bps)
             ELSE tr.estimatedTimeRemaining
  IN [tr EXCEPT !.progress = Progress(loaded, total),
                !.loaded = loaded,
                !.total = total,
                !.bytesPerSecond = bps,
                !.estimatedTimeRemaining = eta,
                !.lastUpdateTime = t,
                !.lastBytes = loaded]

updateTransferProgress(trs, id, loaded, total, t) ==
  [i \in DOMAIN trs |-> IF trs[i].id = id THEN ProgressOne(trs[i], loaded, total, t) ELSE trs[i]]

CompleteOne(tr) ==
  [tr EXCEPT !.status = "completed", !.progress = 100,
             !.bytesPerSecond = 0, !.estimatedTimeRemaining = Undefined]

completeTransfer(trs, id) ==
  [i \in DOMAIN trs |-> IF trs[i].id = id THEN CompleteOne(trs[i]) ELSE trs[i]]

ErrorOne(tr, msg) ==
  [tr EXCEPT !.status = "error", !.error = msg,
             !.bytesPerSecond = 0, !.estimatedTimeRemaining = Undefined]

errorTransfer(trs, id, msg) ==
  [i \in DOMAIN trs |-> IF trs[i].id = id THEN ErrorOne(trs[i], msg) ELSE trs[i]]

PauseOne(tr) ==
  [tr EXCEPT !.status = "paused", !.bytesPerSecond = 0, !.estimatedTimeRemaining = Undefined]

Snapshot(tr) ==
  [key |-> tr.key, name |-> tr.name, loaded |-> tr.loaded, total |-> tr.total, type |-> tr.type]

(* the map with key id set to v (added when absent) *)
MapSet(m, id, v) == [k \in DOMAIN m \cup {id} |-> IF k = id THEN v ELSE m[k]]
(* delete updated[id] *)
MapDel(m, id) == [k \in DOMAIN m \ {id} |-> m[k]]

Matching(trs, id) == {i \in DOMAIN trs : trs[i].id = id}
Max(S) == CHOOSE x \in S : \A y \in S : y <= x

pauseTransfer(trs, id) ==
  [i \in DOMAIN trs |-> IF trs[i].id = id THEN PauseOne(trs[i]) ELSE trs[i]]

(* setPausedTransfers runs once per matching transfer, in list order: the last one stays *)
pauseSnapshot(paused, trs, id) ==
  IF Matching(trs, id) = {} THEN paused
  ELSE MapSet(paused, id, Snapshot(trs[Max(Matching(trs, id))]))

ResumeDescriptor(p, id) ==
  [name |-> p.name, type |-> p.type, size |-> p.total, key |-> p.key, status |-> "",
   loaded |-> p.loaded, resumed |-> TRUE, originalId |-> id]

CancelOne(tr) ==
  [tr EXCEPT !.status = "cancelled", !.progress = 0,
             !.bytesPerSecond = 0, !.estimatedTimeRemaining = Undefined]

cancelTransfer(trs, id) ==
  [i \in DOMAIN trs |-> IF trs[i].id = id THEN CancelOne(trs[i]) ELSE trs[i]]

removeTransfer(trs, id) == SelectSeq(trs, LAMBDA tr : tr.id # id)

(* what the two useEffect hooks do after a render that saw pausedTransfers = p *)
SaveEffect(st, p) == IF DOMAIN p # {} THEN p ELSE st

----------------------------------------------------------------------------
(* Upload engine: src/src/services/enhancedS3Service.js *)

MiB25 == 25
MiB100 == 100
OPTIMAL_CHUNK_SIZE == 100
LARGE_FILE_THRESHOLD == 1024
\* one retry more than the code allows (a loop bound of retryCount <= 4)
MAX_RETRIES_Plus1 == 3 + 1
MAX_RETRIES == 3

MaxFaults == 4

Err(name, msg) == [name |-> name, message |-> msg]
NoErr == Err("", NoMsg)

(* error.message.includes('memory') *)
IncludesMemory(msg) == msg.src = "out of memory"

(* the failures a whole-payload read or a store request can end in *)
NetworkError == Err("Error", Msg("network failure", 0, 0))
FetchTypeError == Err("TypeError", Msg("Failed to fetch", 0, 0))
QuotaError == Err("QuotaExceededError", Msg("quota exceeded", 0, 0))
MemoryError == Err("Error", Msg("out of memory", 0, 0))
RequestErrors == {NetworkError, FetchTypeError, QuotaError, MemoryError}

PartError(p, k) == Err("Error", Msg("part failed", p, k))
PartAbortError(p, k) == Err("AbortError", Msg("Request aborted", p, k))

(* Math.ceil(a / b) *)
Ceil(a, b) == (a + b - 1) \div b
Min(a, b) == IF a < b THEN a ELSE b

(* the tiers with inclusive upper ends *)
getOptimalChunkSizeInclusive(size) ==
  IF size <= 100 THEN 5
  ELSE IF size <= 1024 THEN 10
  ELSE IF size <= 5 * 1024 THEN 25
  ELSE IF size <= 10 * 1024 THEN 50
  ELSE 100

(* fileUtils.getOptimalChunkSize, sizes in MiB *)
getOptimalChunkSize(size) ==
  IF size < 100 THEN 5
  ELSE IF size < 1024 THEN 10
  ELSE IF size < 5 * 1024 THEN 25
  ELSE IF size < 10 * 1024 THEN 50
  ELSE 100

Part(p) == [PartNumber |-> p, ETag |-> p]

(* Array.prototype.sort((a, b) => a.PartNumber - b.PartNumber): a stable insertion sort *)
(* a plausible slip: the comparator reversed, (a, b) => b.PartNumber - a.PartNumber *)
RECURSIVE InsertPartReversed(_, _)
InsertPartReversed(sorted, x) ==
  IF sorted = <<>> THEN <<x>>
  ELSE IF sorted[Len(sorted)].PartNumber >= x.PartNumber THEN Append(sorted, x)
  ELSE Append(InsertPartReversed(SubSeq(sorted, 1, Len(sorted) - 1), x), sorted[Len(sorted)])

RECURSIVE InsertPart(_, _)
InsertPart(sorted, x) ==
  IF sorted = <<>> THEN <<x>>
  ELSE IF sorted[Len(sorted)].PartNumber <= x.PartNumber THEN Append(sorted, x)
  ELSE Append(InsertPart(SubSeq(sorted, 1, Len(sorted) - 1), x), sorted[Len(sorted)])

RECURSIVE SortParts(_)
SortParts(parts) ==
  IF parts = <<>> THEN <<>>
  ELSE InsertPart(SortParts(SubSeq(parts, 1, Len(parts) - 1)), parts[Len(parts)])

IdleUp ==
  [pc |-> "idle", size |-> 0, key |-> "", ctx |-> FALSE, tid |-> NoId,
   path |-> "", fallback |-> FALSE, loaded |-> 0, result |-> "", retKey |-> "", err |-> NoErr]

IdleLf ==
  [pc |-> "idle", fn |-> "", size |-> 0, wrapped |-> FALSE, uploadId |-> FALSE,
   chunkSize |-> 0, numParts |-> 0, i |-> 0, retryCount |-> 0,
   completedParts |-> <<>>, uploadedBytes |-> 0, existing |-> {}, faults |-> 0, err |-> NoErr]

IdleStore ==
  [session |-> "none", sends |-> <<>>, completeCalls |-> 0, completeParts |-> <<>>,
   abortCalls |-> 0, puts |-> 0, object |-> "standard", restoreRequests |-> 0,
   folder |-> <<>>, signed |-> 0, gets |-> {}, restoreSent |-> <<>>]

IdleRs ==
  [pc |-> "idle", ctx |-> FALSE, tid |-> NoId, seen |-> <<>>, polling |-> FALSE, poll |-> "idle", polls |-> 0,
   result |-> "", status |-> "", cause |-> NoErr, err |-> NoErr]

(* getS3DownloadUrlEnhanced(key, size, transferContext): no call running *)
IdleDl ==
  [pc |-> "idle", size |-> 0, ctx |-> FALSE, tid |-> NoId, xhr |-> "", loaded |-> 0,
   seen |-> "", result |-> "", err |-> NoErr]

(* downloadFolderEnhanced(folderKey, transferContext): no call running.
   stage[i] is where the callback of object i stands, seen[i] the archive
   state its status check saw *)
IdleFd ==
  [pc |-> "idle", ctx |-> FALSE, tid |-> NoId, n |-> 0, stage |-> <<>>, seen |-> <<>>,
   processedSize |-> 0, totalSize |-> 0, zipPercent |-> 0,
   result |-> [success |-> FALSE], cause |-> NoErr, err |-> NoErr]

(* restoreFromGlacierBulk(folderKey, tier, transferContext): no call running.
   shown[i] is the archive state the filter's status check saw for object i,
   glacierObjects the indices it kept, j the position of the restore loop and
   inner the await at which the restoreFromGlacier call of that item stands *)
IdleBk ==
  [pc |-> "idle", ctx |-> FALSE, tid |-> NoId, n |-> 0, i |-> 0, shown |-> <<>>,
   glacierObjects |-> <<>>, j |-> 0, inner |-> "", attempted |-> {},
   successCount |-> 0, failCount |-> 0,
   result |-> [restoredFiles |-> 0], cause |-> NoErr, err |-> NoErr]

(* no pure helper called *)
IdleFx == [fn |-> "", args |-> <<>>, vals |-> <<>>]

(* resumableDownload(key, totalSize, onProgress, startByte): no call running.
   ranges are the Range headers sent, as <<start, end>> pairs; chunks are the
   byte arrays received, each kept as the <<first, last>> offsets it holds;
   blob is the concatenation the call returned *)
IdleRd ==
  [pc |-> "idle", totalSize |-> 0, startByte |-> 0, chunkSize |-> 0, numChunks |-> 0, i |-> 0,
   ranges |-> <<>>, chunks |-> <<>>, blob |-> <<>>, progress |-> <<>>, err |-> NoErr]

(* both localStorage items absent: JSON.parse(localStorage.getItem(...) || '{}') is {} *)
NoPending == [uploads |-> <<>>, downloads |-> <<>>]

ResumeIdle ==
  /\ rd = IdleRd
  /\ pending = NoPending
  /\ rs2 = IdleRs

EngineIdle ==
  /\ up = IdleUp
  /\ lf = IdleLf
  /\ store = IdleStore
  /\ activity = <<>>
  /\ dl = IdleDl
  /\ fd = IdleFd
  /\ bk = IdleBk
  /\ fx = IdleFx
  /\ rs = IdleRs
  /\ ResumeIdle

(* if (transferContext && transferId) *)
Tracked == up.ctx /\ up.tid # NoId

(* a slice that is never cut at the end of the file: every chunk is a full one *)
ChunkLenUncut(size, c, p) == c

(* size of chunk number p (1-based) of a file cut into chunks of c *)
ChunkLen(size, c, p) == Min(p * c, size) - (p - 1) * c

(* the frame of uploadLargeFile(file, key, fileSize, onProgress) at its first await *)
LargeFileFrame(size, wrapped) ==
  [IdleLf EXCEPT !.pc = "create", !.fn = "uploadLargeFile", !.size = size, !.wrapped = wrapped]

(* the tail of uploadToS3Enhanced's try block: completeTransfer, then the call of logActivity *)
FinishUpload(trs) == IF Tracked THEN completeTransfer(trs, up.tid) ELSE trs

UploadRecord == [action |-> "Upload", itemName |-> "a.bin", size |-> up.size, fileCount |-> 1]

(* catch (error) of uploadToS3Enhanced: errorTransfer, then rethrow *)
FailUpload(trs, e) == IF Tracked THEN errorTransfer(trs, up.tid, e.message) ELSE trs

Thrown(e) == [up EXCEPT !.pc = "thrown", !.result = "throw", !.err = e]

----------------------------------------------------------------------------
(* Callers of the tracker: the engines' callbacks and the UI (TransferProgress) *)

Total == 100000
Loads == {600, 40000, Total}

Descriptors ==
  { Descriptor("a.bin", "upload", Total, "docs/a.bin", ""),
    Descriptor("b.dat", "restore", Total, "", "initiating") }

(* the update objects the engines pass to updateTransfer *)
Updates ==
  { [status |-> "in_progress", progress |-> 5],
    [status |-> "", progress |-> 10],
    [status |-> "compressing", progress |-> 50],
    [status |-> "completed_with_errors", progress |-> 100] }

Messages == { Msg("Download failed", 0, 0) }

Ids == {transfers[i].id : i \in DOMAIN transfers} \cup DOMAIN pausedTransfers \cup DOMAIN ctxPaused

Returned(op, id, val) == [op |-> op, arg |-> id, val |-> val]

Called ==
  /\ calls < MaxCalls
  /\ calls' = calls + 1

Tick ==
  /\ ticks < MaxTicks
  /\ \E d \in TickSteps : now' = now + d
  /\ ticks' = ticks + 1
  /\ UNCHANGED <<transfers, pausedTransfers, ctxPaused, stored, calls, ret, engineVars>>

(* a render: resumeTransfer is rebuilt over the current pausedTransfers and
   the persistence effect runs *)
Render ==
  /\ ctxPaused # pausedTransfers \/ stored # SaveEffect(stored, pausedTransfers)
  /\ ctxPaused' = pausedTransfers
  /\ stored' = SaveEffect(stored, pausedTransfers)
  /\ UNCHANGED <<transfers, pausedTransfers, now, ticks, calls, ret, engineVars>>

CallAddTransfer(desc) ==
  /\ Called
  /\ Len(transfers) < MaxTransfers
  /\ transfers' = addTransfer(transfers, now, desc)
  /\ ret' = Returned("add", NoId, NewId(now))
  /\ UNCHANGED <<pausedTransfers, ctxPaused, stored, now, ticks, engineVars>>

CallUpdateTransfer(id, upd) ==
  /\ Called
  /\ transfers' = updateTransfer(transfers, id, upd)
  /\ ret' = Returned("update", id, NoId)
  /\ UNCHANGED <<pausedTransfers, ctxPaused, stored, now, ticks, engineVars>>

CallUpdateTransferProgress(id, loaded, total) ==
  /\ Called
  /\ transfers' = updateTransferProgress(transfers, id, loaded, total, now)
  /\ ret' = Returned("progress", id, NoId)
  /\ UNCHANGED <<pausedTransfers, ctxPaused, stored, now, ticks, engineVars>>

CallCompleteTransfer(id) ==
  /\ Called
  /\ transfers' = completeTransfer(transfers, id)
  /\ ret' = Returned("complete", id, NoId)
  /\ UNCHANGED <<pausedTransfers, ctxPaused, stored, now, ticks, engineVars>>

CallErrorTransfer(id, msg) ==
  /\ Called
  /\ transfers' = errorTransfer(transfers, id, msg)
  /\ ret' = Returned("error", id, NoId)
  /\ UNCHANGED <<pausedTransfers, ctxPaused, stored, now, ticks, engineVars>>

CallPauseTransfer(id) ==
  /\ Called
  /\ transfers' = pauseTransfer(transfers, id)
  /\ pausedTransfers' = pauseSnapshot(pausedTransfers, transfers, id)
  /\ ret' = Returned("pause", id, NoId)
  /\ UNCHANGED <<ctxPaused, stored, now, ticks, engineVars>>

(* resumeTransfer reads the pausedTransfers of its closure *)
CallResumeTransfer(id) ==
  /\ Called
  /\ IF id \in DOMAIN ctxPaused
     THEN /\ Len(transfers) < MaxTransfers
          /\ transfers' = addTransfer(transfers, now, ResumeDescriptor(ctxPaused[id], id))
          /\ pausedTransfers' = MapDel(pausedTransfers, id)
          /\ ret' = Returned("resume", id, NewId(now))
     ELSE /\ ret' = Returned("resume", id, NoId)
          /\ UNCHANGED <<transfers, pausedTransfers>>
  /\ UNCHANGED <<ctxPaused, stored, now, ticks, engineVars>>

CallCancelTransfer(id) ==
  /\ Called
  /\ transfers' = cancelTransfer(transfers, id)
  /\ pausedTransfers' = MapDel(pausedTransfers, id)
  /\ ret' = Returned("cancel", id, NoId)
  /\ UNCHANGED <<ctxPaused, stored, now, ticks, engineVars>>

CallRemoveTransfer(id) ==
  /\ Called
  /\ transfers' = removeTransfer(transfers, id)
  /\ pausedTransfers' = MapDel(pausedTransfers, id)
  /\ ret' = Returned("remove", id, NoId)
  /\ UNCHANGED <<ctxPaused, stored, now, ticks, engineVars>>

EmptyMap == [k \in {} |-> 0]

Init ==
  /\ transfers = <<>>
  /\ pausedTransfers = EmptyMap
  /\ ctxPaused = EmptyMap
  /\ stored = EmptyMap
  /\ now = T0
  /\ ticks = 0
  /\ calls = 0
  /\ ret = Returned("none", NoId, NoId)
  /\ EngineIdle

Next ==
  \/ Tick
  \/ Render
  \/ \E desc \in Descriptors : CallAddTransfer(desc)
  \/ \E id \in Ids, upd \in Updates : CallUpdateTransfer(id, upd)
  \/ \E id \in Ids, l \in Loads : CallUpdateTransferProgress(id, l, Total)
  \/ \E id \in Ids : CallCompleteTransfer(id)
  \/ \E id \in Ids, msg \in Messages : CallErrorTransfer(id, msg)
  \/ \E id \in Ids : CallPauseTransfer(id)
  \/ \E id \in Ids : CallResumeTransfer(id)
  \/ \E id \in Ids : CallCancelTransfer(id)
  \/ \E id \in Ids : CallRemoveTransfer(id)

Spec == Init /\ [][Next]_vars

----------------------------------------------------------------------------
(* Properties of the tracker *)

(* bytes transferred and total size of a Transfer as the registry knows them:
   loaded is 0 until a progress update or a resume sets it, the total is the
   total of the last progress update and the declared size before that *)
LoadedOf(tr) == IF tr.loaded = Undefined THEN 0 ELSE tr.loaded
TotalOf(tr) == IF tr.total # Undefined THEN tr.total ELSE tr.size

(* p is 100 * l / t rounded to the nearest integer, halves up *)
IsRounded(p, l, t) == 2 * p * t - t <= 200 * l /\ 200 * l < 2 * p * t + t

(* C2 (as claimed): in every reachable state every Transfer with a known
   positive total has 0 <= loaded <= total and progress = round(100 * loaded / total),
   also after completeTransfer, cancelTransfer and for a resumed Transfer. *)
C2_ProgressAlwaysRounded ==
  \A i \in DOMAIN transfers :
    LET tr == transfers[i] IN
      TotalOf(tr) > 0 =>
        /\ 0 <= LoadedOf(tr) /\ LoadedOf(tr) <= TotalOf(tr)
        /\ IsRounded(tr.progress, LoadedOf(tr), TotalOf(tr))

(* C2 (amended): in every reachable state every Transfer's progress is an
   integer in 0..100 and, when its total is known and positive,
   0 <= loaded <= total; progress = round(100 * loaded / total) holds for the
   Transfer that updateTransferProgress has just updated. *)
C2_ProgressInRange ==
  /\ \A i \in DOMAIN transfers :
       LET tr == transfers[i] IN
         /\ tr.progress \in 0..100
         /\ TotalOf(tr) > 0 => (0 <= LoadedOf(tr) /\ LoadedOf(tr) <= TotalOf(tr))
  /\ ret.op = "progress" =>
       \A i \in DOMAIN transfers :
         transfers[i].id = ret.arg =>
           /\ transfers[i].total > 0
           /\ IsRounded(transfers[i].progress, transfers[i].loaded, transfers[i].total)

(* a progress update that had to round up: 600 of 100000 bytes is 0.6%, shown as 1 *)
C2_Witness ==
  /\ ret.op = "progress"
  /\ \E i \in DOMAIN transfers :
       /\ transfers[i].id = ret.arg
       /\ transfers[i].loaded = 600
       /\ transfers[i].progress = 1

(* C3: a Transfer whose status is completed or error keeps that status under
   every tracker call but removeTransfer (the only call that shortens the
   registry). *)
C3_TerminalStatusKept ==
  [][ \A i \in DOMAIN transfers :
        (transfers[i].status \in {"completed", "error"} /\ Len(transfers') >= Len(transfers))
          => transfers'[i].status = transfers[i].status ]_vars

(* C4: resumeTransfer(id), called once the pause of id has been rendered,
   returns a new id different from id and the registry then holds a new
   in_progress Transfer with that id that carries the snapshot's loaded bytes,
   its total as size, its key, name and kind, and is flagged as a resume of id. *)
C4_ResumeCarriesOver ==
  [][ \A id \in Ids :
        ( /\ CallResumeTransfer(id)
          /\ id \in DOMAIN pausedTransfers
          /\ id \in DOMAIN ctxPaused
          /\ ctxPaused[id] = pausedTransfers[id]
          /\ pausedTransfers[id].loaded # Undefined )
        => LET p == pausedTransfers[id]
               n == Len(transfers')
           IN /\ ret'.val # NoId
              /\ ret'.val # id
              /\ n = Len(transfers) + 1
              /\ transfers'[n].id = ret'.val
              /\ transfers'[n].status = "in_progress"
              /\ transfers'[n].loaded = p.loaded
              /\ transfers'[n].size = p.total
              /\ transfers'[n].key = p.key
              /\ transfers'[n].name = p.name
              /\ transfers'[n].type = p.type
              /\ transfers'[n].resumed
              /\ transfers'[n].originalId = id ]_vars

----------------------------------------------------------------------------
(* uploadToS3Enhanced, uploadLargeFile and resumeMultipartUpload as processes;
   one step runs a function from one await to the next *)

UploadSizes == {1, 24, 25, 99, 100, 250, 1024, 1025}
ResumeSizes == {4, 12}

UploadKey == "docs/a.bin"

(* the branch uploadToS3Enhanced takes for a file of the given size *)
SelectPathOffByOne(size) ==
  IF size > LARGE_FILE_THRESHOLD THEN "uploadLargeFile"
  ELSE IF size <= MiB25 THEN "PutObject"
  ELSE IF size < MiB100 THEN "Upload"
  ELSE "uploadLargeFile"

SelectPath(size) ==
  IF size > LARGE_FILE_THRESHOLD THEN "uploadLargeFile"
  ELSE IF size < MiB25 THEN "PutObject"
  ELSE IF size < MiB100 THEN "Upload"
  ELSE "uploadLargeFile"

UploadStart(size, ctx) ==
  /\ up.pc = "idle" /\ lf.pc = "idle"
  /\ LET path == SelectPath(size) IN
       /\ transfers' = IF ctx
                       THEN addTransfer(transfers, now, Descriptor("a.bin", "upload", size, UploadKey, ""))
                       ELSE transfers
       /\ up' = [IdleUp EXCEPT !.pc = CASE path = "PutObject" -> "putBuffer"
                                        [] path = "Upload" -> "mpBuffer"
                                        [] OTHER -> "large",
                               !.size = size, !.key = UploadKey, !.ctx = ctx,
                               !.tid = IF ctx THEN NewId(now) ELSE NoId,
                               !.path = path]
       /\ lf' = IF path = "uploadLargeFile" THEN LargeFileFrame(size, TRUE) ELSE lf
  /\ UNCHANGED <<pausedTransfers, ctxPaused, stored, now, ticks, calls, ret, store, activity, rs, batchVars>>

(* control reaches line 213: completeTransfer, logActivity is called and awaited *)
Succeed ==
  /\ transfers' = FinishUpload(transfers)
  /\ activity' = Append(activity, UploadRecord)
  /\ up' = [up EXCEPT !.pc = "log"]

(* control reaches the catch of line 230 with error e *)
Fail(e) ==
  /\ transfers' = FailUpload(transfers, e)
  /\ up' = Thrown(e)
  /\ UNCHANGED activity

(* return await uploadLargeFile(file, cleanPath, fileSize, onProgress) in a catch block *)
FallBack ==
  /\ up' = [up EXCEPT !.pc = "large", !.fallback = TRUE]
  /\ lf' = LargeFileFrame(up.size, FALSE)
  /\ UNCHANGED <<transfers, activity>>

PutFallsBack(e) == IncludesMemory(e.message) \/ e.name = "QuotaExceededError" \/ e.name = "TypeError"
MultipartFallsBack(e) == IncludesMemory(e.message) \/ e.name = "QuotaExceededError"

(* await file.arrayBuffer() in the simple PUT branch *)
PutBuffer ==
  /\ up.pc = "putBuffer"
  /\ \/ /\ up' = [up EXCEPT !.pc = "putSend"]
        /\ store' = [store EXCEPT !.puts = @ + 1]
        /\ UNCHANGED <<transfers, activity, lf>>
     \/ \E e \in RequestErrors :
          /\ IF PutFallsBack(e) THEN FallBack ELSE (Fail(e) /\ UNCHANGED lf)
          /\ UNCHANGED store
  /\ UNCHANGED <<pausedTransfers, ctxPaused, stored, now, ticks, calls, ret, rs, batchVars>>

(* await s3Client.send(putCommand) *)
PutSend ==
  /\ up.pc = "putSend"
  /\ \/ /\ transfers' = (IF Tracked
                         THEN completeTransfer(updateTransferProgress(transfers, up.tid, up.size, up.size, now), up.tid)
                         ELSE transfers)
        /\ activity' = Append(activity, UploadRecord)
        /\ up' = [up EXCEPT !.pc = "log"]
        /\ UNCHANGED lf
     \/ \E e \in RequestErrors :
          IF PutFallsBack(e) THEN FallBack ELSE (Fail(e) /\ UNCHANGED lf)
  /\ UNCHANGED <<pausedTransfers, ctxPaused, stored, now, ticks, calls, ret, store, rs, batchVars>>

(* await file.arrayBuffer() in the 25-100 MiB branch; then new Upload(...) and upload.done() *)
MpBuffer ==
  /\ up.pc = "mpBuffer"
  /\ \/ /\ up' = [up EXCEPT !.pc = "mpRun"]
        /\ UNCHANGED <<transfers, activity, lf>>
     \/ \E e \in RequestErrors :
          IF MultipartFallsBack(e) THEN FallBack ELSE (Fail(e) /\ UNCHANGED lf)
  /\ UNCHANGED <<pausedTransfers, ctxPaused, stored, now, ticks, calls, ret, store, rs, batchVars>>

ManagedPartSize == 10

(* upload.on("httpUploadProgress"): the managed uploader reports a cumulative byte count *)
MpProgress ==
  /\ up.pc = "mpRun"
  /\ up.loaded < up.size
  /\ LET l == Min(up.loaded + ManagedPartSize, up.size) IN
       /\ up' = [up EXCEPT !.loaded = l]
       /\ transfers' = IF Tracked
                       THEN updateTransferProgress(transfers, up.tid, l, up.size, now)
                       ELSE transfers
  /\ UNCHANGED <<pausedTransfers, ctxPaused, stored, now, ticks, calls, ret, lf, store, activity, rs, batchVars>>

(* await upload.done() *)
MpDone ==
  /\ up.pc = "mpRun"
  /\ \/ (up.loaded = up.size /\ Succeed /\ UNCHANGED lf)
     \/ \E e \in RequestErrors :
          IF MultipartFallsBack(e) THEN FallBack ELSE (Fail(e) /\ UNCHANGED lf)
  /\ UNCHANGED <<pausedTransfers, ctxPaused, stored, now, ticks, calls, ret, store, rs, batchVars>>

(* await logActivity(...) returns (it never throws); return { success: true, key: cleanPath } *)
LogDone ==
  /\ up.pc = "log"
  /\ up' = [up EXCEPT !.pc = "done", !.result = "return", !.retKey = up.key]
  /\ UNCHANGED <<trackerVars, lf, store, activity, rs, batchVars>>

----------------------------------------------------------------------------
(* uploadLargeFile *)

(* uploadLargeFile returned { success: true } to uploadToS3Enhanced *)
LargeReturned ==
  IF up.fallback
  THEN /\ up' = [up EXCEPT !.pc = "done", !.result = "return", !.retKey = ""]
       /\ UNCHANGED <<transfers, activity>>
  ELSE Succeed

(* a slip that would leave the session dangling: the catch block rethrows without cleanup *)
IssueAbortNever(st, uploadId) == st

(* catch block of uploadLargeFile: if (uploadId) the AbortMultipartUpload request is sent *)
IssueAbort(st, uploadId) == IF uploadId THEN [st EXCEPT !.abortCalls = @ + 1] ELSE st

(* the CompleteMultipartUpload request is built (parts sorted) and sent *)
IssueComplete(st, parts) ==
  [st EXCEPT !.completeCalls = @ + 1, !.completeParts = SortParts(parts)]

LfCreate ==
  /\ lf.pc = "create"
  /\ \/ LET c == Min(OPTIMAL_CHUNK_SIZE, 100)
            n == Ceil(lf.size, c)
        IN /\ lf' = [lf EXCEPT !.pc = IF n = 0 THEN "complete" ELSE "part",
                               !.uploadId = TRUE, !.chunkSize = c, !.numParts = n, !.i = 0]
           /\ store' = (IF n = 0
                        THEN IssueComplete([store EXCEPT !.session = "open"], <<>>)
                        ELSE [store EXCEPT !.session = "open", !.sends = [p \in 1..n |-> 0]])
           /\ UNCHANGED <<transfers, up, activity>>
     \/ \E e \in {NetworkError} :
          /\ lf' = [lf EXCEPT !.pc = "threw", !.err = e]
          /\ Fail(e)
          /\ UNCHANGED store
  /\ UNCHANGED <<pausedTransfers, ctxPaused, stored, now, ticks, calls, ret, rs, batchVars>>

(* the catch block of uploadLargeFile is entered with error e: the abort request is sent *)
EnterCatch(e) ==
  /\ lf' = [lf EXCEPT !.pc = "abort", !.err = e,
                      !.retryCount = IF e.name = "AbortError" THEN @ ELSE @ + 1,
                      !.faults = IF e.name = "AbortError" THEN @ ELSE @ + 1]
  /\ UNCHANGED <<transfers, up, activity>>

(* one pass of the while loop for part i + 1: arrayBuffer, send, then success or catch *)
LfPart ==
  /\ lf.pc = "part"
  /\ LET p == lf.i + 1
         k == lf.retryCount + 1
         sent == [store EXCEPT !.sends[p] = @ + 1]
     IN \/ LET bytes == lf.uploadedBytes + ChunkLen(lf.size, lf.chunkSize, p)
               parts == Append(lf.completedParts, Part(p))
               last == p = lf.numParts
           IN /\ lf' = [lf EXCEPT !.completedParts = parts, !.uploadedBytes = bytes,
                                  !.i = p, !.retryCount = 0,
                                  !.pc = IF last THEN "complete" ELSE "part"]
              /\ store' = IF last THEN IssueComplete(sent, parts) ELSE sent
              /\ transfers' = IF lf.wrapped /\ Tracked
                              THEN updateTransferProgress(transfers, up.tid, bytes, lf.size, now)
                              ELSE transfers
              /\ UNCHANGED <<up, activity>>
        \/ /\ lf.faults < MaxFaults
           /\ \E requested \in BOOLEAN :
                IF lf.retryCount + 1 > MAX_RETRIES
                THEN /\ EnterCatch(PartError(p, k))
                     /\ store' = IssueAbort(IF requested THEN sent ELSE store, lf.uploadId)
                ELSE /\ lf' = [lf EXCEPT !.pc = "backoff", !.retryCount = @ + 1, !.faults = @ + 1]
                     /\ store' = IF requested THEN sent ELSE store
                     /\ UNCHANGED <<transfers, up, activity>>
        \/ /\ EnterCatch(PartAbortError(p, k))
           /\ store' = IssueAbort(sent, lf.uploadId)
  /\ UNCHANGED <<pausedTransfers, ctxPaused, stored, now, ticks, calls, ret, rs, batchVars>>

(* await new Promise(resolve => setTimeout(resolve, Math.pow(2, retryCount) * 500)) *)
LfBackoff ==
  /\ lf.pc = "backoff"
  /\ lf' = [lf EXCEPT !.pc = "part"]
  /\ UNCHANGED <<trackerVars, up, store, activity, rs, batchVars>>

(* await s3Client.send(completeCommand) *)
LfComplete ==
  /\ lf.pc = "complete"
  /\ \/ /\ lf' = [lf EXCEPT !.pc = "returned"]
        /\ store' = [store EXCEPT !.session = "completed"]
        /\ LargeReturned
     \/ /\ lf' = [lf EXCEPT !.pc = "abort", !.err = NetworkError]
        /\ store' = IssueAbort(store, lf.uploadId)
        /\ UNCHANGED <<transfers, up, activity>>
  /\ UNCHANGED <<pausedTransfers, ctxPaused, stored, now, ticks, calls, ret, rs, batchVars>>

(* await s3Client.send(new AbortMultipartUploadCommand(...)); its failure is swallowed; throw error *)
LfAbort ==
  /\ lf.pc = "abort"
  /\ \E ok \in BOOLEAN :
       store' = IF ok THEN [store EXCEPT !.session = "aborted"] ELSE store
  /\ lf' = [lf EXCEPT !.pc = "threw"]
  /\ Fail(lf.err)
  /\ UNCHANGED <<pausedTransfers, ctxPaused, stored, now, ticks, calls, ret, rs, batchVars>>

----------------------------------------------------------------------------
(* resumeMultipartUpload: src/src/services/s3Service.js *)

(* the for loop of resumeMultipartUpload from part p on, up to its next await:
   parts the store already has are pushed, the first missing part is sent *)
RECURSIVE ResumeScan(_, _, _, _)
ResumeScan(p, n, existing, acc) ==
  IF p > n THEN [parts |-> acc, next |-> n + 1]
  ELSE IF p \in existing THEN ResumeScan(p + 1, n, existing, Append(acc, Part(p)))
  ELSE [parts |-> acc, next |-> p]

RECURSIVE SumSizes(_, _, _)
SumSizes(ps, size, c) ==
  IF ps = {} THEN 0
  ELSE LET p == CHOOSE x \in ps : TRUE
       IN (IF p <= Ceil(size, c) THEN ChunkLen(size, c, p) ELSE c) + SumSizes(ps \ {p}, size, c)

(* the loop has advanced to the scan result r: either a part request is pending or complete is sent *)
ResumeAdvance(frame, r) ==
  [frame EXCEPT !.completedParts = r.parts, !.i = r.next - 1,
                !.pc = IF r.next > frame.numParts THEN "rcomplete" ELSE "rpart"]

ResumeStart(size) ==
  /\ up.pc = "idle" /\ lf.pc = "idle"
  /\ lf' = [IdleLf EXCEPT !.pc = "list", !.fn = "resumeMultipartUpload", !.size = size, !.uploadId = TRUE]
  /\ store' = [IdleStore EXCEPT !.session = "open"]
  /\ UNCHANGED <<trackerVars, up, activity, rs, batchVars>>

(* await s3Client.send(listPartsCommand): the store reports the parts it holds *)
RList ==
  /\ lf.pc = "list"
  /\ \/ LET c == getOptimalChunkSize(lf.size)
            n == Ceil(lf.size, c)
        IN \E existing \in SUBSET (1..(n + 1)) :
             LET r == ResumeScan(1, n, existing, <<>>)
                 f == [lf EXCEPT !.chunkSize = c, !.numParts = n, !.existing = existing,
                                 !.uploadedBytes = SumSizes(existing, lf.size, c)]
             IN /\ lf' = ResumeAdvance(f, r)
                /\ store' = (IF r.next > n
                             THEN IssueComplete([store EXCEPT !.sends = [p \in 1..n |-> 0]], r.parts)
                             ELSE [store EXCEPT !.sends = [p \in 1..n |-> 0]])
     \/ /\ lf' = [lf EXCEPT !.pc = "threw", !.err = NetworkError]
        /\ UNCHANGED store
  /\ UNCHANGED <<trackerVars, up, activity, rs, batchVars>>

(* await s3Client.send(uploadPartCommand) for part i + 1; no retry, no abort on failure *)
RPart ==
  /\ lf.pc = "rpart"
  /\ LET p == lf.i + 1
         sent == [store EXCEPT !.sends[p] = @ + 1]
     IN \/ LET r == ResumeScan(p + 1, lf.numParts, lf.existing, Append(lf.completedParts, Part(p)))
               f == [lf EXCEPT !.uploadedBytes = @ + ChunkLen(lf.size, lf.chunkSize, p)]
           IN /\ lf' = ResumeAdvance(f, r)
              /\ store' = IF r.next > lf.numParts THEN IssueComplete(sent, r.parts) ELSE sent
        \/ /\ lf' = [lf EXCEPT !.pc = "threw", !.err = PartError(p, 1)]
           /\ store' = sent
  /\ UNCHANGED <<trackerVars, up, activity, rs, batchVars>>

(* await s3Client.send(completeCommand) *)
RComplete ==
  /\ lf.pc = "rcomplete"
  /\ \/ /\ lf' = [lf EXCEPT !.pc = "returned"]
        /\ store' = [store EXCEPT !.session = "completed"]
     \/ /\ lf' = [lf EXCEPT !.pc = "threw", !.err = NetworkError]
        /\ UNCHANGED store
  /\ UNCHANGED <<trackerVars, up, activity, rs, batchVars>>

----------------------------------------------------------------------------
(* The upload engine together with the tracker it reports to and a user who
   may cancel the Transfer of the running upload *)

UserCancel(id) ==
  /\ up.pc \notin {"idle"}
  /\ transfers' = cancelTransfer(transfers, id)
  /\ pausedTransfers' = MapDel(pausedTransfers, id)
  /\ ret' = Returned("cancel", id, NoId)
  /\ UNCHANGED <<ctxPaused, stored, now, ticks, calls, engineVars>>

(* The upload engine never reads the clock itself; Date.now() only feeds the
   tracker's ids and its write-only rate fields, so the clock is left at T0
   in this specification (Tick belongs to Spec and SpecRestore). *)
NextUpload ==
  \/ \E size \in UploadSizes, ctx \in BOOLEAN : UploadStart(size, ctx)
  \/ PutBuffer
  \/ PutSend
  \/ MpBuffer
  \/ MpProgress
  \/ MpDone
  \/ LogDone
  \/ LfCreate
  \/ LfPart
  \/ LfBackoff
  \/ LfComplete
  \/ LfAbort
  \/ \E size \in ResumeSizes : ResumeStart(size)
  \/ RList
  \/ RPart
  \/ RComplete
  \/ \E id \in Ids : UserCancel(id)

SpecUpload == Init /\ [][NextUpload]_vars

----------------------------------------------------------------------------
(* Properties of the upload engine *)

(* C1: once cancelTransfer has set a Transfer's status to cancelled, no later
   tracker call or engine callback sets it to completed. *)
C1_CancelledNeverCompleted ==
  [][ \A i \in DOMAIN transfers :
        (transfers[i].status = "cancelled" /\ Len(transfers') >= Len(transfers))
          => transfers'[i].status # "completed" ]_vars

(* C5: whenever uploadLargeFile or resumeMultipartUpload sends complete-multipart
   for a file of N parts, the part list is ascending and holds each of 1..N once. *)
C5_CompletePartsSorted ==
  store.completeCalls > 0 =>
    /\ Len(store.completeParts) = lf.numParts
    /\ \A j \in DOMAIN store.completeParts : store.completeParts[j].PartNumber = j

(* complete was sent for a three-part file after a part had to be retried, or
   by a resume that found some parts already uploaded *)
C5_Witness ==
  /\ store.completeCalls = 1
  /\ lf.numParts = 3
  /\ \/ lf.fn = "uploadLargeFile" /\ \E p \in DOMAIN store.sends : store.sends[p] = 2
     \/ lf.fn = "resumeMultipartUpload" /\ lf.existing = {2}

(* C6 (as claimed): when a created session's upload fails, an abort call is
   issued before the error reaches the caller, so that no created session is
   left neither completed nor aborted; no abort follows a successful complete. *)
C6_NoSessionLeftOpen ==
  /\ (lf.fn = "uploadLargeFile" /\ lf.pc = "threw" /\ lf.uploadId)
       => (store.abortCalls = 1 /\ store.session = "aborted")
  /\ store.session = "completed" => store.abortCalls = 0

(* C6 (amended): when a created session's upload fails, exactly one abort call
   is issued before the error reaches the caller of upload; the session is
   aborted if that call succeeds and stays open if it fails, as the failure of
   the abort is swallowed; no abort is issued without a created session or
   after a successful complete. *)
C6_AbortIssued ==
  /\ (lf.fn = "uploadLargeFile" /\ lf.uploadId /\ (lf.pc = "threw" \/ up.pc = "thrown"))
       => (store.abortCalls = 1 /\ store.session \in {"aborted", "open"})
  /\ store.session = "completed" => store.abortCalls = 0
  /\ store.abortCalls > 0 => lf.uploadId

(* the second part failed on all its attempts, the abort was sent and the error thrown *)
C6_Witness ==
  /\ lf.fn = "uploadLargeFile" /\ up.pc = "thrown"
  /\ lf.err = PartError(2, 4)
  /\ store.abortCalls = 1 /\ store.session = "aborted"

(* the bytes of the first p chunks *)
BytesUpTo(size, c, p) == Min(p * c, size)

(* C7: in uploadLargeFile every part is sent at most 4 times; when the fourth
   attempt of a part fails no later part is sent and the upload throws the
   error of that fourth attempt; every uploaded part is recorded once and its
   bytes are counted once, however many attempts it took. *)
C7_RetryBounded ==
  (lf.fn = "uploadLargeFile" /\ lf.uploadId) =>
    /\ \A p \in DOMAIN store.sends : store.sends[p] <= 4
    /\ Len(lf.completedParts) = lf.i
    /\ \A j \in DOMAIN lf.completedParts : lf.completedParts[j].PartNumber = j
    /\ lf.uploadedBytes = BytesUpTo(lf.size, lf.chunkSize, lf.i)
    /\ \A p \in DOMAIN store.sends : p > lf.i + 1 => store.sends[p] = 0
    /\ (lf.pc \in {"abort", "threw"} /\ lf.err.message.src = "part failed")
         => /\ lf.err = PartError(lf.i + 1, 4)
            /\ lf.retryCount = 4
    /\ (up.pc = "thrown" /\ lf.pc = "threw") => up.err = lf.err

(* the second of three parts succeeded on its fourth attempt and the third was then sent *)
C7_Witness ==
  /\ lf.fn = "uploadLargeFile" /\ lf.numParts = 3
  /\ store.sends = <<1, 4, 1>>
  /\ lf.completedParts = <<Part(1), Part(2), Part(3)>>
  /\ lf.uploadedBytes = lf.size

(* C8 (as claimed): below 25 MiB one PUT; from 25 MiB to below 100 MiB the
   in-memory multipart; from 100 MiB to below 1 GiB the managed multipart
   uploader (lib-storage Upload, concurrency 4); from 1 GiB on the manual
   sequential multipart. *)
C8_TiersAsClaimed ==
  up.pc # "idle" =>
    up.path = (IF up.size < 25 THEN "PutObject"
               ELSE IF up.size < 100 THEN "Upload"
               ELSE IF up.size < 1024 THEN "Upload"
               ELSE "uploadLargeFile")

(* C8 (amended): below 25 MiB one PUT; from 25 MiB to below 100 MiB the
   in-memory multipart run by the managed uploader with concurrency 4; from
   100 MiB on, below and above 1 GiB alike, the manual sequential multipart
   upload with explicit retry. *)
C8_TiersOfTheCode ==
  up.pc # "idle" =>
    /\ up.size < 25 => up.path = "PutObject"
    /\ (25 <= up.size /\ up.size < 100) => up.path = "Upload"
    /\ 100 <= up.size => up.path = "uploadLargeFile"
    /\ (up.path = "uploadLargeFile" /\ ~up.fallback) => (lf.fn = "uploadLargeFile" /\ lf.wrapped)
    /\ (up.path # "uploadLargeFile" /\ ~up.fallback) => lf.fn = ""

(* a 250 MiB file is being uploaded part by part by uploadLargeFile *)
C8_Witness ==
  /\ up.size = 250 /\ up.path = "uploadLargeFile"
  /\ lf.pc = "part" /\ lf.i = 1 /\ store.sends = <<1, 0, 0>>

(* C9: an upload call that returns successfully, the user not having touched
   the Transfer, has left its Transfer completed, has made exactly one Upload
   activity record with the file's name and size, and returns the key. *)
C9_SuccessEffects ==
  (up.pc = "done" /\ ret.op = "none") =>
    /\ Tracked => \A i \in DOMAIN transfers :
                    transfers[i].id = up.tid => transfers[i].status = "completed"
    /\ activity = << [action |-> "Upload", itemName |-> "a.bin", size |-> up.size, fileCount |-> 1] >>
    /\ up.retKey = up.key

----------------------------------------------------------------------------
(* Archive restore engine: src/src/services/glacierService.js *)

MaxPolls == 2

ObjectStates == {"standard", "archived", "ongoing", "ready"}

(* the HeadObject response for an object in the given archive state *)
HeadObject(o) ==
  [StorageClass |-> IF o = "standard" THEN "STANDARD" ELSE "DEEP_ARCHIVE",
   Restore |-> CASE o = "ongoing" -> "true"
                 [] o = "ready" -> "false"
                 [] OTHER -> "",
   ContentLength |-> 40]

(* a status check that never looks at the Restore header *)
checkGlacierStatusNoRestoreHeader(response) ==
  [isGlacier |-> response.StorageClass \in {"GLACIER", "DEEP_ARCHIVE"},
   restoreStatus |-> FALSE, ongoingRequest |-> FALSE, isReady |-> FALSE,
   size |-> response.ContentLength]

(* checkGlacierStatus: restoreStatus is null unless the object is archived and
   carries a Restore header, whose ongoing-request value is parsed *)
checkGlacierStatus(response) ==
  LET isGlacier == response.StorageClass \in {"GLACIER", "DEEP_ARCHIVE"}
      has == isGlacier /\ response.Restore # ""
  IN [isGlacier |-> isGlacier,
      restoreStatus |-> has,
      ongoingRequest |-> has /\ response.Restore = "true",
      isReady |-> has /\ response.Restore = "false",
      size |-> response.ContentLength]

ReferenceError == Err("ReferenceError", Msg("transferId is not defined", 0, 0))

(* the catch block of restoreFromGlacier, entered with error e: transferId was
   declared with let inside the try block and is not in scope here, so
   `transferContext && transferId` throws a ReferenceError as soon as
   transferContext is truthy; errorTransfer is never reached *)
RestoreCatch(frame, e) ==
  [frame EXCEPT !.pc = "threw", !.result = "throw", !.cause = e,
                !.err = IF frame.ctx THEN ReferenceError ELSE e]

RestoreStart(ctx) ==
  /\ rs.pc = "idle"
  /\ rs' = [IdleRs EXCEPT !.pc = "check", !.ctx = ctx, !.seen = transfers]
  /\ UNCHANGED <<trackerVars, up, lf, store, activity, batchVars>>

(* await checkGlacierStatus(key), then up to await s3Client.send(RestoreObjectCommand) *)
RsCheck ==
  /\ rs.pc = "check"
  /\ \/ LET st == checkGlacierStatus(HeadObject(store.object)) IN
          IF st.ongoingRequest
          THEN /\ rs' = [rs EXCEPT !.pc = "returned", !.result = "return", !.status = "in_progress"]
               /\ UNCHANGED <<transfers, store>>
          ELSE IF st.isReady
          THEN /\ rs' = [rs EXCEPT !.pc = "returned", !.result = "return", !.status = "completed"]
               /\ UNCHANGED <<transfers, store>>
          ELSE /\ transfers' = IF rs.ctx
                               THEN addTransfer(transfers, now,
                                                Descriptor("b.dat", "restore", st.size, "", "initiating"))
                               ELSE transfers
               /\ rs' = [rs EXCEPT !.pc = "request", !.tid = IF rs.ctx THEN NewId(now) ELSE NoId]
               /\ store' = [store EXCEPT !.restoreRequests = @ + 1]
     \/ /\ rs' = RestoreCatch(rs, NetworkError)
        /\ UNCHANGED <<transfers, store>>
  /\ UNCHANGED <<pausedTransfers, ctxPaused, stored, now, ticks, calls, ret, up, lf, activity, batchVars>>

(* the store answers the restore request: it accepts it for an archived object
   with no restore under way and rejects it otherwise or on a failure *)
RsRequest ==
  /\ rs.pc = "request"
  /\ \/ /\ store.object = "archived"
        /\ store' = [store EXCEPT !.object = "ongoing"]
        /\ transfers' = IF rs.ctx /\ rs.tid # NoId
                        THEN updateTransfer(transfers, rs.tid, [status |-> "in_progress", progress |-> 5])
                        ELSE transfers
        /\ rs' = [rs EXCEPT !.pc = "returned", !.result = "return", !.status = "initiated",
                            !.polling = rs.ctx /\ rs.tid # NoId]
     \/ /\ rs' = RestoreCatch(rs, NetworkError)
        /\ UNCHANGED <<transfers, store>>
  /\ UNCHANGED <<pausedTransfers, ctxPaused, stored, now, ticks, calls, ret, up, lf, activity, batchVars>>

(* the setInterval callback fires and awaits checkGlacierStatus(key) *)
RsPollFire ==
  /\ rs.polling /\ rs.poll = "idle"
  /\ rs.polls < MaxPolls
  /\ rs' = [rs EXCEPT !.poll = "check", !.polls = @ + 1]
  /\ UNCHANGED <<trackerVars, up, lf, store, activity, batchVars>>

(* transferContext.transfers.find(t => t.id === transferId)?.progress + 5 || 10,
   over the transfers array the caller's context object was built with *)
PolledProgress(seen, id) ==
  LET m == Matching(seen, id)
  IN Min(95, IF m = {} THEN 10 ELSE seen[CHOOSE i \in m : \A j \in m : i <= j].progress + 5)

(* the status check of the poll returns (or fails, which is only logged) *)
RsPollCheck ==
  /\ rs.poll = "check"
  /\ \/ LET st == checkGlacierStatus(HeadObject(store.object)) IN
          IF st.isReady \/ (~st.ongoingRequest /\ ~st.isGlacier)
          THEN /\ transfers' = completeTransfer(transfers, rs.tid)
               /\ rs' = [rs EXCEPT !.poll = "idle", !.polling = FALSE]
          ELSE IF st.ongoingRequest
          THEN /\ transfers' = updateTransfer(transfers, rs.tid,
                                              [status |-> "", progress |-> PolledProgress(rs.seen, rs.tid)])
               /\ rs' = [rs EXCEPT !.poll = "idle"]
          ELSE /\ rs' = [rs EXCEPT !.poll = "idle"]
               /\ UNCHANGED transfers
     \/ /\ rs' = [rs EXCEPT !.poll = "idle"]
        /\ UNCHANGED transfers
  /\ UNCHANGED <<pausedTransfers, ctxPaused, stored, now, ticks, calls, ret, up, lf, store, activity, batchVars>>

(* the store finishes a restore that was under way *)
StoreRestored ==
  /\ store.object = "ongoing"
  /\ store' = [store EXCEPT !.object = "ready"]
  /\ UNCHANGED <<trackerVars, up, lf, activity, rs, batchVars>>

(* the user closes (removes) or cancels a Transfer of the restore *)
UserRemove(id) ==
  /\ rs.pc # "idle"
  /\ transfers' = removeTransfer(transfers, id)
  /\ pausedTransfers' = MapDel(pausedTransfers, id)
  /\ ret' = Returned("remove", id, NoId)
  /\ UNCHANGED <<ctxPaused, stored, now, ticks, calls, engineVars>>

UserCancelRestore(id) ==
  /\ rs.pc # "idle"
  /\ transfers' = cancelTransfer(transfers, id)
  /\ pausedTransfers' = MapDel(pausedTransfers, id)
  /\ ret' = Returned("cancel", id, NoId)
  /\ UNCHANGED <<ctxPaused, stored, now, ticks, calls, engineVars>>

InitRestore ==
  /\ transfers = <<>>
  /\ pausedTransfers = EmptyMap
  /\ ctxPaused = EmptyMap
  /\ stored = EmptyMap
  /\ now = T0
  /\ ticks = 0
  /\ calls = 0
  /\ ret = Returned("none", NoId, NoId)
  /\ up = IdleUp
  /\ lf = IdleLf
  /\ \E o \in ObjectStates : store = [IdleStore EXCEPT !.object = o]
  /\ activity = <<>>
  /\ rs = IdleRs
  /\ dl = IdleDl
  /\ fd = IdleFd
  /\ bk = IdleBk
  /\ fx = IdleFx
  /\ ResumeIdle

NextRestore ==
  \/ Tick
  \/ \E ctx \in BOOLEAN : RestoreStart(ctx)
  \/ RsCheck
  \/ RsRequest
  \/ RsPollFire
  \/ RsPollCheck
  \/ StoreRestored
  \/ \E id \in Ids : UserRemove(id)
  \/ \E id \in Ids : UserCancelRestore(id)

SpecRestore == InitRestore /\ [][NextRestore]_vars

(* C10: when an engine operation throws to its caller after it has registered
   a Transfer (the user not having touched it), that Transfer has status error
   with the failure's message and the error thrown is the original failure. *)
C10_ThrowMarksError ==
  (rs.pc = "threw" /\ rs.tid # NoId /\ ret.op = "none") =>
    /\ \A i \in DOMAIN transfers :
         transfers[i].id = rs.tid =>
           (transfers[i].status = "error" /\ transfers[i].error = rs.cause.message)
    /\ rs.err = rs.cause

(* C11: restoreFromGlacier on a key whose status check reports an ongoing
   restore returns status in_progress, and on a key whose status check reports
   a ready restored copy returns that it is already available (status
   completed); in both cases no restore request is sent and no Transfer is
   registered. *)
C11_NoDuplicateRestore ==
  [][ (RsCheck /\ rs'.pc # "threw" /\ store.object \in {"ongoing", "ready"})
        => /\ rs'.pc = "returned"
           /\ rs'.status = (IF store.object = "ongoing" THEN "in_progress" ELSE "completed")
           /\ rs'.tid = NoId
           /\ store'.restoreRequests = store.restoreRequests
           /\ transfers' = transfers ]_vars

(* a call with a tracker handle came back "in progress" for an object whose
   restore was under way: nothing was sent, nothing registered *)
C11_Witness ==
  /\ rs.pc = "returned" /\ rs.ctx /\ rs.status = "in_progress"
  /\ store.object \in {"ongoing", "ready"}
  /\ store.restoreRequests = 0
  /\ transfers = <<>>

(* C12: once the Transfer registered by restoreFromGlacier is completed, in
   error or cancelled, or has been removed from the registry, the background
   poll starts no further status check. *)
C12_PollStopsAtTerminal ==
  [][ RsPollFire =>
        \E i \in DOMAIN transfers :
          /\ transfers[i].id = rs.tid
          /\ transfers[i].status \notin {"completed", "error", "cancelled"} ]_vars

----------------------------------------------------------------------------
(* Download engine, single object: enhancedS3Service.getS3DownloadUrlEnhanced *)

MiB50 == 50
DownloadSizes == {40, 60}

GlacierError == Err("Error", Msg("File is in Glacier storage and not yet restored", 0, 0))
DownloadFailed == Msg("Download failed", 0, 0)

(* glacierStatus.isGlacier && !glacierStatus.restoreStatus?.ongoingRequest === false :
   the negation binds tighter than ===, so the right operand is true exactly
   when ongoingRequest is truthy; with no restore status it is undefined *)
DownloadBlocked(st) == st.isGlacier /\ ((~(st.restoreStatus /\ st.ongoingRequest)) = FALSE)

(* the store serves the bytes of an object that is not archived or whose
   restored copy is ready, and rejects a read of any other object *)
Readable(o) == o \in {"standard", "ready"}

DownloadRecord == [action |-> "Download", itemName |-> "b.dat", size |-> dl.size, fileCount |-> 1]

DlStart(size, ctx) ==
  /\ dl.pc = "idle"
  /\ dl' = [IdleDl EXCEPT !.pc = "check", !.size = size, !.ctx = ctx]
  /\ UNCHANGED <<trackerVars, up, lf, store, activity, rs, fd, bk, fx, resumeVars>>

(* await checkGlacierStatus(key), then the guard *)
DlCheck ==
  /\ dl.pc = "check"
  /\ \/ LET st == checkGlacierStatus(HeadObject(store.object)) IN
          dl' = IF DownloadBlocked(st)
                THEN [dl EXCEPT !.pc = "threw", !.seen = store.object, !.result = "throw", !.err = GlacierError]
                ELSE [dl EXCEPT !.pc = "log", !.seen = store.object]
     \/ dl' = [dl EXCEPT !.pc = "threw", !.result = "throw", !.err = NetworkError]
  /\ UNCHANGED <<trackerVars, up, lf, store, activity, rs, fd, bk, fx, resumeVars>>

(* await logActivity({ action: 'Download', ... }), which never throws *)
DlLog ==
  /\ dl.pc = "log"
  /\ activity' = Append(activity, DownloadRecord)
  /\ dl' = [dl EXCEPT !.pc = "sign"]
  /\ UNCHANGED <<trackerVars, up, lf, store, rs, fd, bk, fx, resumeVars>>

(* await getSignedUrl(...), then the rest of the branch up to the return:
   above 50 MiB the Transfer is completed at once, below it an XHR is started *)
DlSign ==
  /\ dl.pc = "sign"
  /\ \/ /\ store' = [store EXCEPT !.signed = @ + 1]
        /\ IF ~dl.ctx
           THEN /\ dl' = [dl EXCEPT !.pc = "returned", !.result = "url"]
                /\ UNCHANGED transfers
           ELSE IF dl.size > MiB50
           THEN /\ transfers' = completeTransfer(
                                  addTransfer(transfers, now, Descriptor("b.dat", "download", dl.size, "", "")),
                                  NewId(now))
                /\ dl' = [dl EXCEPT !.pc = "returned", !.result = "url", !.tid = NewId(now)]
           ELSE /\ transfers' = addTransfer(transfers, now, Descriptor("b.dat", "download", dl.size, "", ""))
                /\ dl' = [dl EXCEPT !.pc = "returned", !.result = "success", !.tid = NewId(now),
                                    !.xhr = "sent"]
     \/ /\ dl' = [dl EXCEPT !.pc = "threw", !.result = "throw", !.err = NetworkError]
        /\ UNCHANGED <<transfers, store>>
  /\ UNCHANGED <<pausedTransfers, ctxPaused, stored, now, ticks, calls, ret, up, lf, activity, rs, fd, bk, fx, resumeVars>>

(* xhr 'progress' event with a computable length *)
DlXhrProgress ==
  /\ dl.xhr = "sent" /\ Readable(store.object)
  /\ \E l \in {dl.size \div 2, dl.size} :
       /\ dl.loaded < l
       /\ dl' = [dl EXCEPT !.loaded = l]
       /\ transfers' = updateTransferProgress(transfers, dl.tid, l, dl.size, now)
  /\ UNCHANGED <<pausedTransfers, ctxPaused, stored, now, ticks, calls, ret, up, lf, store, activity, rs, fd, bk, fx, resumeVars>>

(* xhr 'load' event: status 200 only when the store serves the object *)
DlXhrLoad ==
  /\ dl.xhr = "sent"
  /\ \/ /\ Readable(store.object) /\ dl.loaded = dl.size
        /\ transfers' = completeTransfer(transfers, dl.tid)
     \/ /\ dl.loaded = 0
        /\ transfers' = errorTransfer(transfers, dl.tid, DownloadFailed)
  /\ dl' = [dl EXCEPT !.xhr = "done"]
  /\ UNCHANGED <<pausedTransfers, ctxPaused, stored, now, ticks, calls, ret, up, lf, store, activity, rs, fd, bk, fx, resumeVars>>

(* xhr 'error' event *)
DlXhrError ==
  /\ dl.xhr = "sent"
  /\ transfers' = errorTransfer(transfers, dl.tid, DownloadFailed)
  /\ dl' = [dl EXCEPT !.xhr = "done"]
  /\ UNCHANGED <<pausedTransfers, ctxPaused, stored, now, ticks, calls, ret, up, lf, store, activity, rs, fd, bk, fx, resumeVars>>

(* the store finishes, or is asked for, a restore of the object while the download runs *)
StoreRestoreBegins ==
  /\ store.object = "archived" /\ dl.pc # "idle"
  /\ store' = [store EXCEPT !.object = "ongoing"]
  /\ UNCHANGED <<trackerVars, up, lf, activity, rs, batchVars>>

NextDownload ==
  \/ Tick
  \/ \E size \in DownloadSizes, ctx \in BOOLEAN : DlStart(size, ctx)
  \/ DlCheck
  \/ DlLog
  \/ DlSign
  \/ DlXhrProgress
  \/ DlXhrLoad
  \/ DlXhrError
  \/ StoreRestoreBegins
  \/ StoreRestored

SpecDownload == InitRestore /\ [][NextDownload]_vars

(* C13: getS3DownloadUrlEnhanced fails, without a signed URL and without a
   Transfer, whenever its status check shows the object archived and not
   restore-ready (never requested, or restore still under way), and does not
   fail on that ground for an object that is not archived or is ready. *)
C13_ArchivedDownloadRejected ==
  /\ (dl.seen \in {"archived", "ongoing"} /\ dl.pc # "check")
       => (dl.pc = "threw" /\ dl.err = GlacierError /\ store.signed = 0 /\ dl.tid = NoId)
  /\ (dl.seen \in {"standard", "ready"}) => dl.err # GlacierError

----------------------------------------------------------------------------
(* Download engine, folder: enhancedS3Service.downloadFolderEnhanced *)

MaxObjects == 3
ObjSize == 10
batchSize == 10

(* the folders the listing can show: up to MaxObjects objects, each in any archive state *)
Folders == UNION { [1..n -> ObjectStates] : n \in 0..MaxObjects }

EmptyFolderError == Err("Error", Msg("No files found in folder", 0, 0))
ZipError == Err("RangeError", Msg("Array buffer allocation failed", 0, 0))
ObjectError(i) == Err("NetworkError", Msg("object", i, 0))

FdFinal(stage) == stage \in {"zipped", "skipped", "failed"}

(* objects.slice(i, i + batchSize): the batch an object belongs to; a batch is
   started when every callback of the batch before it has settled *)
BatchOf(i) == (i - 1) \div batchSize
FdRunning(i) ==
  /\ fd.pc = "batch" /\ i \in 1..fd.n
  /\ \A k \in 1..fd.n : BatchOf(k) < BatchOf(i) => FdFinal(fd.stage[k])

(* after the last callback of the last batch the loop ends and zip.generateAsync is called *)
FdAfterObject(frame) ==
  IF \A k \in 1..frame.n : FdFinal(frame.stage[k]) THEN [frame EXCEPT !.pc = "zip"] ELSE frame

(* the catch block of one object's callback, rethrowing *)
FdObjectCatchRethrows(frame, i, e) ==
  [frame EXCEPT !.stage[i] = "failed", !.pc = "threw", !.cause = e, !.err = e]

(* the catch block of one object's callback: log and go on with the others *)
FdObjectCatch(frame, i, e) == FdAfterObject([frame EXCEPT !.stage[i] = "failed"])

FdTracked == fd.ctx /\ fd.tid # NoId

FdStart(ctx) ==
  /\ fd.pc = "idle" /\ bk.pc = "idle"
  /\ fd' = [IdleFd EXCEPT !.pc = "list", !.ctx = ctx]
  /\ UNCHANGED <<trackerVars, up, lf, store, activity, rs, dl, bk, fx, resumeVars>>

(* await getAllObjects(folderKey), the empty-folder test and addTransfer *)
FdList ==
  /\ fd.pc = "list"
  /\ \/ LET n == Len(store.folder) IN
          IF n = 0
          THEN /\ fd' = [fd EXCEPT !.pc = "threw", !.cause = EmptyFolderError, !.err = EmptyFolderError]
               /\ UNCHANGED transfers
          ELSE /\ transfers' = IF fd.ctx
                               THEN addTransfer(transfers, now,
                                                Descriptor("docs.zip", "download", n * ObjSize, "", ""))
                               ELSE transfers
               /\ fd' = [fd EXCEPT !.pc = "batch", !.n = n, !.totalSize = n * ObjSize,
                                   !.tid = IF fd.ctx THEN NewId(now) ELSE NoId,
                                   !.stage = [k \in 1..n |-> "start"],
                                   !.seen = [k \in 1..n |-> ""]]
     \/ /\ fd' = [fd EXCEPT !.pc = "threw", !.cause = NetworkError, !.err = NetworkError]
        /\ UNCHANGED transfers
  /\ UNCHANGED <<pausedTransfers, ctxPaused, stored, now, ticks, calls, ret, up, lf, store, activity, rs, dl, bk, fx, resumeVars>>

(* one object's callback: await checkGlacierStatus(obj.Key), the skip test,
   and the GetObject request it then sends *)
FdCheck(i) ==
  /\ FdRunning(i) /\ fd.stage[i] = "start"
  /\ \/ LET st == checkGlacierStatus(HeadObject(store.folder[i])) IN
          IF DownloadBlocked(st)
          THEN /\ fd' = FdAfterObject([fd EXCEPT !.stage[i] = "skipped", !.seen[i] = store.folder[i],
                                                 !.processedSize = @ + ObjSize])
               /\ UNCHANGED store
          ELSE /\ fd' = [fd EXCEPT !.stage[i] = "get", !.seen[i] = store.folder[i]]
               /\ store' = [store EXCEPT !.gets = @ \cup {i}]
     \/ /\ fd' = FdObjectCatch(fd, i, ObjectError(i))
        /\ UNCHANGED store
  /\ UNCHANGED <<trackerVars, up, lf, activity, rs, dl, bk, fx, resumeVars>>

(* the GetObject response and its body arrive: zip.file, processedSize, progress *)
FdGet(i) ==
  /\ FdRunning(i) /\ fd.stage[i] = "get"
  /\ \/ /\ Readable(store.folder[i])
        /\ fd' = FdAfterObject([fd EXCEPT !.stage[i] = "zipped", !.processedSize = @ + ObjSize])
        /\ transfers' = IF FdTracked
                        THEN updateTransferProgress(transfers, fd.tid, fd.processedSize + ObjSize,
                                                    fd.totalSize, now)
                        ELSE transfers
     \/ /\ fd' = FdObjectCatch(fd, i, ObjectError(i))
        /\ UNCHANGED transfers
  /\ UNCHANGED <<pausedTransfers, ctxPaused, stored, now, ticks, calls, ret, up, lf, store, activity, rs, dl, bk, fx, resumeVars>>

(* the progress callback of zip.generateAsync *)
FdZipProgress ==
  /\ fd.pc = "zip" /\ FdTracked
  /\ \E pct \in {50, 100} :
       /\ fd.zipPercent < pct
       /\ fd' = [fd EXCEPT !.zipPercent = pct]
       /\ transfers' = updateTransfer(transfers, fd.tid, [status |-> "compressing", progress |-> pct])
  /\ UNCHANGED <<pausedTransfers, ctxPaused, stored, now, ticks, calls, ret, up, lf, store, activity, rs, dl, bk, fx, resumeVars>>

(* await zip.generateAsync(...) settles; the archive is saved, the Transfer completed *)
FdZipDone ==
  /\ fd.pc = "zip"
  /\ \/ /\ transfers' = IF FdTracked THEN completeTransfer(transfers, fd.tid) ELSE transfers
        /\ fd' = [fd EXCEPT !.pc = "returned", !.result = [success |-> TRUE]]
     \/ /\ fd' = [fd EXCEPT !.pc = "threw", !.cause = ZipError, !.err = ZipError]
        /\ UNCHANGED transfers
  /\ UNCHANGED <<pausedTransfers, ctxPaused, stored, now, ticks, calls, ret, up, lf, store, activity, rs, dl, bk, fx, resumeVars>>

(* the store finishes the restore of an object of the folder *)
StoreFolderRestored(i) ==
  /\ (fd.pc # "idle" \/ bk.pc # "idle")
  /\ i \in DOMAIN store.folder /\ store.folder[i] = "ongoing"
  /\ store' = [store EXCEPT !.folder[i] = "ready"]
  /\ UNCHANGED <<trackerVars, up, lf, activity, rs, batchVars>>

(* the objects of the archive that was saved *)
FdArchive == {i \in 1..fd.n : fd.stage[i] = "zipped"}
ArchivedNotReady == {"archived", "ongoing"}

----------------------------------------------------------------------------
(* Archive restore engine, folder: glacierService.restoreFromGlacierBulk *)

NoObjectsError == Err("Error", Msg("No objects found in folder", 0, 0))

(* the catch block of restoreFromGlacierBulk: like that of restoreFromGlacier
   it reads transferId, which was declared inside the try block *)
BulkCatch(frame, e) ==
  [frame EXCEPT !.pc = "threw", !.cause = e, !.err = IF frame.ctx THEN ReferenceError ELSE e]

(* a filter that keeps every archived object, restored or not *)
NeedsRestoreAnyArchived(st) == st.isGlacier

(* status.isGlacier && (!status.restoreStatus || !status.restoreStatus.isReady) *)
NeedsRestore(st) == st.isGlacier /\ (~st.restoreStatus \/ ~st.isReady)

BkStart(ctx) ==
  /\ bk.pc = "idle" /\ fd.pc = "idle"
  /\ bk' = [IdleBk EXCEPT !.pc = "list", !.ctx = ctx]
  /\ UNCHANGED <<trackerVars, up, lf, store, activity, rs, dl, fd, fx, resumeVars>>

(* MaxKeys: 1000 of the one ListObjectsV2Command that restoreFromGlacierBulk
   sends, scaled down with the folders of the model: a folder of more objects
   than this spans several pages of the listing *)
MaxKeys == 2

(* await s3Client.send(ListObjectsV2Command) and the empty-folder test: the
   response holds the first page only and its NextContinuationToken is not read *)
BkList ==
  /\ bk.pc = "list"
  /\ \/ LET n == Min(Len(store.folder), MaxKeys) IN
          bk' = IF n = 0
                THEN BulkCatch(bk, NoObjectsError)
                ELSE [bk EXCEPT !.pc = "filter", !.n = n, !.i = 1, !.shown = [k \in 1..n |-> ""]]
     \/ bk' = BulkCatch(bk, NetworkError)
  /\ UNCHANGED <<trackerVars, up, lf, store, activity, rs, dl, fd, fx, resumeVars>>

(* the frame after the filter loop: return when nothing needs a restore,
   else register the bulk Transfer and enter the restore loop *)
BkAfterFilter(frame) ==
  IF frame.i <= frame.n THEN frame
  ELSE IF frame.glacierObjects = <<>>
  THEN [frame EXCEPT !.pc = "returned", !.result = [restoredFiles |-> 0]]
  ELSE [frame EXCEPT !.pc = "restore", !.j = 1, !.inner = "check",
                     !.attempted = {frame.glacierObjects[1]},
                     !.tid = IF frame.ctx THEN NewId(now) ELSE NoId]

(* one turn of the filter loop: await checkGlacierStatus(item.Key) *)
BkFilter ==
  /\ bk.pc = "filter"
  /\ LET i == bk.i
         st == checkGlacierStatus(HeadObject(store.folder[i]))
         kept == [bk EXCEPT !.shown[i] = store.folder[i], !.i = @ + 1,
                            !.glacierObjects = IF NeedsRestore(st) THEN Append(@, i) ELSE @]
         failed == [bk EXCEPT !.i = @ + 1]
     IN \E f \in {kept, failed} :
          /\ bk' = BkAfterFilter(f)
          /\ transfers' = IF bk'.pc = "restore" /\ bk.ctx
                          THEN addTransfer(transfers, now,
                                           Descriptor("Bulk Restore: docs", "bulk-restore", Undefined, "",
                                                      "initiating"))
                          ELSE transfers
  /\ UNCHANGED <<pausedTransfers, ctxPaused, stored, now, ticks, calls, ret, up, lf, store, activity, rs, dl, fd, fx, resumeVars>>

(* the end of one turn of the restore loop, the item having succeeded or not:
   the progress update, then either the next item or the final tally *)
BkItemDone(frame, ok) ==
  LET m == Len(frame.glacierObjects)
      f == [frame EXCEPT !.successCount = IF ok THEN @ + 1 ELSE @,
                         !.failCount = IF ok THEN @ ELSE @ + 1]
  IN IF frame.j < m
     THEN [f EXCEPT !.j = @ + 1, !.inner = "check",
                    !.attempted = @ \cup {frame.glacierObjects[frame.j + 1]}]
     ELSE [f EXCEPT !.pc = "returned", !.inner = "",
                    !.result = [restoredFiles |-> f.successCount, failedFiles |-> f.failCount]]

BkItemTransfers(trs, frame, ok) ==
  LET m == Len(frame.glacierObjects)
      fails == frame.failCount + (IF ok THEN 0 ELSE 1)
      progressed == IF ok
                    THEN updateTransfer(trs, frame.tid,
                                        [status |-> "in_progress", progress |-> Round(100 * frame.j, m)])
                    ELSE trs
  IN IF ~(frame.ctx /\ frame.tid # NoId) THEN trs
     ELSE IF frame.j < m THEN progressed
     ELSE IF fails = 0 THEN completeTransfer(progressed, frame.tid)
     ELSE updateTransfer(progressed, frame.tid, [status |-> "completed_with_errors", progress |-> 100])

(* restoreFromGlacier(item.Key, tier) of the current item: its status check,
   and the restore request it sends when no restore is under way or ready *)
BkRestoreCheck ==
  /\ bk.pc = "restore" /\ bk.inner = "check"
  /\ LET k == bk.glacierObjects[bk.j]
         st == checkGlacierStatus(HeadObject(store.folder[k]))
     IN \/ /\ st.ongoingRequest \/ st.isReady
           /\ bk' = BkItemDone(bk, TRUE)
           /\ transfers' = BkItemTransfers(transfers, bk, TRUE)
           /\ UNCHANGED store
        \/ /\ ~(st.ongoingRequest \/ st.isReady)
           /\ bk' = [bk EXCEPT !.inner = "request"]
           /\ store' = [store EXCEPT !.restoreSent = Append(@, k)]
           /\ UNCHANGED transfers
        \/ /\ bk' = BkItemDone(bk, FALSE)
           /\ transfers' = BkItemTransfers(transfers, bk, FALSE)
           /\ UNCHANGED store
  /\ UNCHANGED <<pausedTransfers, ctxPaused, stored, now, ticks, calls, ret, up, lf, activity, rs, dl, fd, fx, resumeVars>>

(* the store answers the restore request of the current item *)
BkRestoreRequest ==
  /\ bk.pc = "restore" /\ bk.inner = "request"
  /\ LET k == bk.glacierObjects[bk.j]
     IN \/ /\ store.folder[k] = "archived"
           /\ store' = [store EXCEPT !.folder[k] = "ongoing"]
           /\ bk' = BkItemDone(bk, TRUE)
           /\ transfers' = BkItemTransfers(transfers, bk, TRUE)
        \/ /\ bk' = BkItemDone(bk, FALSE)
           /\ transfers' = BkItemTransfers(transfers, bk, FALSE)
           /\ UNCHANGED store
  /\ UNCHANGED <<pausedTransfers, ctxPaused, stored, now, ticks, calls, ret, up, lf, activity, rs, dl, fd, fx, resumeVars>>

InitBatch ==
  /\ transfers = <<>>
  /\ pausedTransfers = EmptyMap
  /\ ctxPaused = EmptyMap
  /\ stored = EmptyMap
  /\ now = T0
  /\ ticks = 0
  /\ calls = 0
  /\ ret = Returned("none", NoId, NoId)
  /\ up = IdleUp
  /\ lf = IdleLf
  /\ \E f \in Folders : store = [IdleStore EXCEPT !.folder = f]
  /\ activity = <<>>
  /\ rs = IdleRs
  /\ dl = IdleDl
  /\ fd = IdleFd
  /\ bk = IdleBk
  /\ fx = IdleFx
  /\ ResumeIdle

NextBatch ==
  \/ \E ctx \in BOOLEAN : FdStart(ctx)
  \/ FdList
  \/ \E i \in 1..MaxObjects : FdCheck(i)
  \/ \E i \in 1..MaxObjects : FdGet(i)
  \/ FdZipProgress
  \/ FdZipDone
  \/ \E ctx \in BOOLEAN : BkStart(ctx)
  \/ BkList
  \/ BkFilter
  \/ BkRestoreCheck
  \/ BkRestoreRequest
  \/ \E i \in 1..MaxObjects : StoreFolderRestored(i)

SpecBatch == InitBatch /\ [][NextBatch]_vars

----------------------------------------------------------------------------
(* Properties of the folder operations *)

(* C14: downloadFolderEnhanced skips every object its status check showed
   archived and not ready (no GetObject is sent for it and it is not in the
   archive) and reports a skip count equal to the number of such objects. *)
C14_FolderSkipsArchived ==
  fd.pc = "returned" =>
    /\ \A i \in 1..fd.n :
         fd.seen[i] \in ArchivedNotReady => (i \notin store.gets /\ i \notin FdArchive)
    /\ "skipped" \in DOMAIN fd.result
    /\ fd.result.skipped = Cardinality({i \in 1..fd.n : fd.seen[i] \in ArchivedNotReady})

(* C15 (as claimed): downloadFolderEnhanced and restoreFromGlacierBulk throw
   only when the listing request itself fails; the failure of one object never
   makes them throw and every remaining object is still processed. *)
C15_ThrowsOnlyOnListingFailure ==
  /\ fd.pc = "threw" => fd.cause = NetworkError
  /\ bk.pc = "threw" => bk.cause = NetworkError
  /\ fd.pc \in {"zip", "returned"} => \A i \in 1..fd.n : FdFinal(fd.stage[i])
  /\ bk.pc = "returned" => bk.successCount + bk.failCount = Len(bk.glacierObjects)

(* C15 (amended): the failure of one object's status check, fetch or restore
   request never makes downloadFolderEnhanced or restoreFromGlacierBulk throw,
   and every remaining object is still processed; they throw when the listing
   fails or is empty, and downloadFolderEnhanced also when building the
   archive fails. *)
C15_PartialFailureNeverThrows ==
  /\ fd.pc = "threw" => fd.cause \in {NetworkError, EmptyFolderError, ZipError}
  /\ bk.pc = "threw" => bk.cause \in {NetworkError, NoObjectsError}
  /\ fd.pc \in {"zip", "returned"} => \A i \in 1..fd.n : FdFinal(fd.stage[i])
  /\ bk.pc = "returned" => bk.successCount + bk.failCount = Len(bk.glacierObjects)

(* a folder download came back although one object failed, another one being in the archive *)
C15_Witness ==
  /\ fd.pc = "returned"
  /\ \E i, k \in 1..fd.n : fd.stage[i] = "failed" /\ fd.stage[k] = "zipped"

(* C16 (as claimed): restoreFromGlacierBulk returns totalFiles, restoredFiles
   and failedFiles with restoredFiles + failedFiles <= totalFiles, and calls
   restoreFromGlacier only for objects whose status check showed archived and
   not ready. *)
C16_BulkTally ==
  bk.pc = "returned" =>
    /\ {"totalFiles", "restoredFiles", "failedFiles"} \subseteq DOMAIN bk.result
    /\ bk.result.restoredFiles + bk.result.failedFiles <= bk.result.totalFiles
    /\ \A k \in bk.attempted : bk.shown[k] \in ArchivedNotReady

(* C16 (amended): restoreFromGlacierBulk calls restoreFromGlacier, and sends
   restore requests, only for objects whose status check showed archived and
   not ready; its result has no totalFiles: it is restoredFiles = 0 alone when
   no object needs a restore, and else restoredFiles and failedFiles, whose sum
   is the number of objects that needed a restore, at most the number listed. *)
C16_BulkTallyOfTheCode ==
  /\ \A k \in bk.attempted : bk.shown[k] \in ArchivedNotReady
  /\ \A x \in DOMAIN store.restoreSent : store.restoreSent[x] \in bk.attempted
  /\ bk.pc = "returned" =>
       /\ "totalFiles" \notin DOMAIN bk.result
       /\ IF bk.glacierObjects = <<>>
          THEN bk.result = [restoredFiles |-> 0]
          ELSE /\ bk.result.restoredFiles + bk.result.failedFiles = Len(bk.glacierObjects)
               /\ Len(bk.glacierObjects) <= bk.n

(* a bulk restore came back with one success and one failure from a folder
   that also holds an object it did not attempt *)
C16_Witness ==
  /\ bk.pc = "returned"
  /\ bk.result = [restoredFiles |-> 1, failedFiles |-> 1]
  /\ Cardinality(bk.attempted) < Len(store.folder)

----------------------------------------------------------------------------
(* The pure helpers, called on their own *)

(* the tracker and every engine at rest *)
AtRest ==
  /\ transfers = <<>>
  /\ pausedTransfers = EmptyMap
  /\ ctxPaused = EmptyMap
  /\ stored = EmptyMap
  /\ now = T0
  /\ ticks = 0
  /\ calls = 0
  /\ ret = Returned("none", NoId, NoId)
  /\ up = IdleUp
  /\ lf = IdleLf
  /\ store = IdleStore
  /\ activity = <<>>
  /\ rs = IdleRs
  /\ dl = IdleDl
  /\ fd = IdleFd
  /\ bk = IdleBk
  /\ ResumeIdle

(* file sizes in MiB on both sides of every tier limit of getOptimalChunkSize;
   the limits are whole numbers of MiB, so a size between two whole numbers
   falls in the tier of the smaller one *)
ChunkSizes == {0, 1, 99, 100, 101, 1023, 1024, 1025, 5119, 5120, 5121, 10239, 10240, 10241, 20480}

InitChunk ==
  /\ AtRest
  /\ \E a \in ChunkSizes, b \in ChunkSizes :
       fx = [fn |-> "getOptimalChunkSize", args |-> <<a, b>>, vals |-> <<>>]

(* getOptimalChunkSize is called on each of the two sizes *)
CallGetOptimalChunkSize ==
  /\ fx.fn = "getOptimalChunkSize" /\ fx.vals = <<>>
  /\ fx' = [fx EXCEPT !.vals = <<getOptimalChunkSize(fx.args[1]), getOptimalChunkSize(fx.args[2])>>]
  /\ UNCHANGED <<trackerVars, up, lf, store, activity, rs, dl, fd, bk, resumeVars>>

NextChunk == CallGetOptimalChunkSize

SpecChunk == InitChunk /\ [][NextChunk]_vars

(* C17: getOptimalChunkSize(s) is 5 MiB for s < 100 MiB, 10 MiB below 1 GiB,
   25 MiB below 5 GiB, 50 MiB below 10 GiB and 100 MiB from 10 GiB on; so it
   is one of these five values and non-decreasing in s. *)
C17_ChunkTiers ==
  (fx.fn = "getOptimalChunkSize" /\ fx.vals # <<>>) =>
    LET s == fx.args[1]
        t == fx.args[2]
        c == fx.vals[1]
        d == fx.vals[2]
    IN /\ (s < 100) => c = 5
       /\ (100 <= s /\ s < 1024) => c = 10
       /\ (1024 <= s /\ s < 5120) => c = 25
       /\ (5120 <= s /\ s < 10240) => c = 50
       /\ (10240 <= s) => c = 100
       /\ c \in {5, 10, 25, 50, 100}
       /\ (s <= t) => (c <= d)

(* the function was applied at two tier limits: exactly 1 GiB and exactly 5 GiB *)
C17_Witness ==
  fx = [fn |-> "getOptimalChunkSize", args |-> <<1024, 5120>>, vals |-> <<25, 50>>]

(* destination paths as strings over a dot, a slash, a backslash and a letter *)
MaxPathLen == 4
Chars == {".", "/", "\\", "x"}
Paths == UNION { [1..n -> Chars] : n \in 0..MaxPathLen }

(* the length of the longest run of slashes at the start, at the end, of p *)
LeadingSlashes(p) == Max({k \in 0..Len(p) : \A i \in 1..k : p[i] = "/"})
TrailingSlashes(p) == Max({k \in 0..Len(p) : \A i \in (Len(p) - k + 1)..Len(p) : p[i] = "/"})

(* .replace(/^\.\//, '') *)
StripDotSlash(p) ==
  IF Len(p) >= 2 /\ p[1] = "." /\ p[2] = "/" THEN SubSeq(p, 3, Len(p)) ELSE p

(* .replace(/^\/+|\/+$/g, '') *)
StripSlashes(p) ==
  IF LeadingSlashes(p) = Len(p) THEN <<>>
  ELSE SubSeq(p, LeadingSlashes(p) + 1, Len(p) - TrailingSlashes(p))

(* .replace(/\\/g, '/') *)
ForwardSlashes(p) == [i \in 1..Len(p) |-> IF p[i] = "\\" THEN "/" ELSE p[i]]

cleanPath(filePath) == ForwardSlashes(StripSlashes(StripDotSlash(filePath)))

InitCleanPath ==
  /\ AtRest
  /\ \E path \in Paths : fx = [fn |-> "cleanPath", args |-> <<path>>, vals |-> <<>>]

(* the key uploadToS3Enhanced computes from the path, and the key it would
   compute if it were given that key as the path *)
CallCleanPath ==
  /\ fx.fn = "cleanPath" /\ fx.vals = <<>>
  /\ fx' = [fx EXCEPT !.vals = <<cleanPath(fx.args[1]), cleanPath(cleanPath(fx.args[1]))>>]
  /\ UNCHANGED <<trackerVars, up, lf, store, activity, rs, dl, fd, bk, resumeVars>>

NextCleanPath == CallCleanPath

SpecCleanPath == InitCleanPath /\ [][NextCleanPath]_vars

(* C18: the key computed from any destination path has no leading "./", no
   leading or trailing slash and no backslash, and computing the key of a key
   returns it unchanged. *)
C18_KeyNormalized ==
  (fx.fn = "cleanPath" /\ fx.vals # <<>>) =>
    LET key == fx.vals[1] IN
      /\ ~(Len(key) >= 2 /\ key[1] = "." /\ key[2] = "/")
      /\ key # <<>> => (key[1] # "/" /\ key[Len(key)] # "/")
      /\ \A i \in 1..Len(key) : key[i] # "\\"
      /\ fx.vals[2] = key

----------------------------------------------------------------------------
(* The tracker across page reloads *)

(* the effects of the last render have run: the closure of resumeTransfer and
   localStorage are up to date *)
Settled ==
  /\ ctxPaused = pausedTransfers
  /\ stored = SaveEffect(stored, pausedTransfers)

(* the page is reloaded: the provider is mounted afresh with an empty registry
   and the load effect sets pausedTransfers to what localStorage holds.  A
   snapshot is a flat record of strings and numbers whose undefined fields are
   dropped by JSON.stringify and read back as undefined, so it comes back as
   it was written *)
Reload ==
  /\ Settled
  /\ ret.op # "reload"
  /\ transfers' = <<>>
  /\ pausedTransfers' = stored
  /\ ctxPaused' = EmptyMap
  /\ ret' = Returned("reload", NoId, NoId)
  /\ UNCHANGED <<stored, now, ticks, calls, engineVars>>

NextPersist ==
  \/ Next
  \/ Reload

SpecPersist == Init /\ [][NextPersist]_vars

(* C19: no two Transfers of the registry share an id, also when two
   addTransfer calls fall in the same millisecond and for the Transfer that
   resumeTransfer creates. *)
C19_IdsUnique ==
  \A i, j \in DOMAIN transfers : i # j => transfers[i].id # transfers[j].id

(* C20: after resumeTransfer(id) has returned a new id, and after
   cancelTransfer(id) or removeTransfer(id), there is no paused snapshot for id
   in pausedTransfers and, once the effects have run, none in localStorage, so
   that a reload cannot bring it back. *)
C20_SnapshotGone ==
  (ret.op \in {"cancel", "remove"} \/ (ret.op = "resume" /\ ret.val # NoId)) =>
    /\ ret.arg \notin DOMAIN pausedTransfers
    /\ Settled => ret.arg \notin DOMAIN stored

----------------------------------------------------------------------------
(* Properties of the download engines' activity log *)

DownloadRecords == {i \in DOMAIN activity : activity[i].action = "Download"}

(* C21: a Download activity record is appended only for a download that
   succeeded and every successful download, of one object or of a folder,
   appends exactly one: a call that threw (archived guard, signed URL, listing)
   or whose fetch failed has left no record, and a call that returned a URL or
   saved the folder's archive has left exactly one. *)
C21_DownloadLoggedOnSuccess ==
  /\ dl.pc = "threw" => DownloadRecords = {}
  /\ (dl.xhr = "done" /\ \E i \in DOMAIN transfers : transfers[i].id = dl.tid /\ transfers[i].status = "error")
       => DownloadRecords = {}
  /\ (dl.pc = "returned" /\ dl.result = "url") => Cardinality(DownloadRecords) = 1
  /\ fd.pc = "threw" => DownloadRecords = {}
  /\ fd.pc = "returned" => Cardinality(DownloadRecords) = 1

----------------------------------------------------------------------------
(* Cancelling a manual multipart upload *)

(* the Transfer of the running upload is in the cancelled state *)
UploadCancelled ==
  /\ Tracked
  /\ \E i \in DOMAIN transfers : transfers[i].id = up.tid /\ transfers[i].status = "cancelled"

(* C22: while uploadLargeFile runs for an upload whose Transfer cancelTransfer
   has set to cancelled, no further upload-part request and no
   complete-multipart request is issued for that upload. *)
C22_CancelStopsMultipart ==
  [][ (up.pc = "large" /\ lf.fn = "uploadLargeFile" /\ UploadCancelled)
        => /\ \A p \in DOMAIN store'.sends :
                store'.sends[p] = (IF p \in DOMAIN store.sends THEN store.sends[p] ELSE 0)
           /\ store'.completeCalls = store.completeCalls ]_vars

----------------------------------------------------------------------------
(* The rate computation of updateTransferProgress under a stream of updates *)

MaxUpdates == 4

(* milliseconds between two consecutive progress callbacks *)
UpdateGaps == {100, 250, 500, 501}

InitRate ==
  /\ AtRest
  /\ fx = [fn |-> "updateTransferProgress", args |-> <<>>, vals |-> <<>>]

(* an engine registers its Transfer *)
RateAdd ==
  /\ fx.fn = "updateTransferProgress" /\ transfers = <<>>
  /\ transfers' = addTransfer(transfers, now, Descriptor("a.bin", "upload", Total, "docs/a.bin", ""))
  /\ UNCHANGED <<pausedTransfers, ctxPaused, stored, now, ticks, calls, ret, engineVars>>

(* d ms after the previous callback (or after the registration) the engine
   reports progress: updateTransferProgress(id, loaded, total) with a loaded
   count that grows by the same amount each time.  fx keeps the gaps and the
   rate the Transfer shows after each call *)
ProgressAfter(d) ==
  /\ fx.fn = "updateTransferProgress" /\ transfers # <<>>
  /\ Len(fx.args) < MaxUpdates
  /\ LET k == Len(fx.args) + 1
         loaded == k * (Total \div (MaxUpdates + 1))
         trs == updateTransferProgress(transfers, transfers[1].id, loaded, Total, now + d)
     IN /\ now' = now + d
        /\ transfers' = trs
        /\ fx' = [fx EXCEPT !.args = Append(@, d), !.vals = Append(@, trs[1].bytesPerSecond)]
  /\ UNCHANGED <<pausedTransfers, ctxPaused, stored, ticks, calls, ret, up, lf, store, activity, rs, dl, fd, bk, resumeVars>>

NextRate ==
  \/ RateAdd
  \/ \E d \in UpdateGaps : ProgressAfter(d)

SpecRate == InitRate /\ [][NextRate]_vars

(* C23: updateTransferProgress recomputes the rate only when at least 500 ms
   have passed since the last rate computation for the id (the registration,
   before the first one), so under a stream of growing progress updates the
   Transfer shows a rate exactly from the first update on that comes 500 ms or
   more after the registration, however closely the updates are spaced. *)
C23_RateRecomputedAfter500 ==
  (fx.fn = "updateTransferProgress" /\ fx.args # <<>>) =>
    (transfers[1].bytesPerSecond > 0 <=> now - transfers[1].id >= 500)

----------------------------------------------------------------------------
(* Part sizes of the manual multipart path *)

(* uploadLargeFile has created its session and computed chunkSize and numParts *)
LargeFileRunning == lf.fn = "uploadLargeFile" /\ lf.uploadId

(* C24 (as claimed): in the manual multipart path the part size for a file of
   size s is the Chunking Policy's getOptimalChunkSize(s), and the upload is
   cut into ceil(s / getOptimalChunkSize(s)) parts. *)
C24_PartSizeByPolicy ==
  LargeFileRunning =>
    /\ lf.chunkSize = getOptimalChunkSize(lf.size)
    /\ lf.numParts = Ceil(lf.size, getOptimalChunkSize(lf.size))

(* C24 (amended): in the manual multipart path the part size is the fixed
   OPTIMAL_CHUNK_SIZE of 100 MiB for every file size; the upload is cut into
   ceil(s / 100 MiB) parts, numbered from 1, each of 100 MiB except the last,
   which holds the rest: after i parts min(i * 100 MiB, s) bytes are uploaded. *)
C24_PartSizeOfTheCode ==
  LargeFileRunning =>
    /\ lf.chunkSize = OPTIMAL_CHUNK_SIZE
    /\ lf.numParts = Ceil(lf.size, OPTIMAL_CHUNK_SIZE)
    /\ DOMAIN store.sends = 1..lf.numParts
    /\ lf.i <= lf.numParts
    /\ lf.uploadedBytes = Min(lf.i * OPTIMAL_CHUNK_SIZE, lf.size)
    /\ \A k \in DOMAIN lf.completedParts : lf.completedParts[k].PartNumber = k
    /\ Len(lf.completedParts) = lf.i

(* all three parts of a 250 MiB file were uploaded: two of 100 MiB and one of 50 MiB *)
C24_Witness ==
  /\ LargeFileRunning
  /\ lf.size = 250 /\ lf.numParts = 3 /\ lf.i = 3 /\ lf.uploadedBytes = 250

----------------------------------------------------------------------------
(* Listing pages of the bulk restore *)

(* C25: restoreFromGlacierBulk considers every object under the prefix, also
   those on pages of the listing after the first: every object of the folder
   has its status checked, and when the operation returns no object that is
   still archived with no restore under way was left without a restore attempt
   unless its own status check failed. *)
C25_BulkCoversAllPages ==
  /\ bk.pc \in {"filter", "restore", "returned"} => DOMAIN bk.shown = DOMAIN store.folder
  /\ bk.pc = "returned" =>
       \A k \in DOMAIN store.folder :
         store.folder[k] = "archived" =>
           /\ k \in DOMAIN bk.shown
           /\ bk.shown[k] = "" \/ k \in bk.attempted

----------------------------------------------------------------------------
(* Resumable transfer state store and resumableDownload: src/src/services/s3Service.js *)

MaxDownloadSize == 12
DownloadKey == "docs/b.dat"

(* saveUploadState: uploads[key] = { uploadId, fileSize, fileName, timestamp } *)
saveUploadState(p, key, fileSize) ==
  [p EXCEPT !.uploads = MapSet(@, key, [uploadId |-> TRUE, fileSize |-> fileSize])]

(* JS null where a record is expected *)
Null == [null |-> TRUE]

(* getSavedUploadState / getSavedDownloadState: record[key] || null *)
getSavedUploadState(p, key) == IF key \in DOMAIN p.uploads THEN p.uploads[key] ELSE Null
getSavedDownloadState(p, key) == IF key \in DOMAIN p.downloads THEN p.downloads[key] ELSE Null

(* saveDownloadState: downloads[key] = { downloadedBytes, totalSize, timestamp } *)
saveDownloadState(p, key, downloadedBytes, totalSize) ==
  [p EXCEPT !.downloads = MapSet(@, key, [downloadedBytes |-> downloadedBytes, totalSize |-> totalSize])]

(* clearDownloadState: delete downloads[key] *)
clearDownloadState(p, key) == [p EXCEPT !.downloads = MapDel(@, key)]

(* the body of a GetObject response for Range: bytes=start-end (end inclusive):
   the bytes of the object at these offsets, each byte named by its offset *)
RangeBody(start, end) == [k \in 1..(end - start + 1) |-> start + k - 1]

(* new Blob(chunks): the chunks one after the other *)
RECURSIVE Blob(_)
Blob(chunks) == IF chunks = <<>> THEN <<>> ELSE Head(chunks) \o Blob(Tail(chunks))

(* the end of resumableDownload once its loop is over: the blob is built,
   the state record cleared, the blob returned *)
RdAfterChunk(frame) ==
  IF frame.i < frame.numChunks THEN frame
  ELSE [frame EXCEPT !.pc = "returned", !.blob = Blob(frame.chunks)]

(* the caller records the open multipart session of an interrupted upload;
   the caller runs one resumable transfer at a time *)
CallSaveUploadState(size) ==
  /\ up.pc = "idle" /\ lf.pc = "idle" /\ rd.pc = "idle"
  /\ UploadKey \notin DOMAIN pending.uploads
  /\ pending' = saveUploadState(pending, UploadKey, size)
  /\ UNCHANGED <<trackerVars, up, lf, store, activity, rs, dl, fd, bk, fx, rd, rs2>>

(* resumeMultipartUpload(key, file, saved.uploadId, onProgress) for the saved session *)
ResumeSaved ==
  /\ getSavedUploadState(pending, UploadKey) # Null
  /\ ResumeStart(getSavedUploadState(pending, UploadKey).fileSize)

(* resumableDownload(key, totalSize, onProgress, startByte) is called, for the
   first time or again after a run that failed; up to the first await *)
RdStart(totalSize, startByte) ==
  /\ rd.pc \in {"idle", "threw"} /\ lf.pc = "idle" /\ pending.uploads = <<>>
  /\ LET c == getOptimalChunkSize(totalSize)
         frame == [IdleRd EXCEPT !.pc = "chunk", !.totalSize = totalSize, !.startByte = startByte,
                                 !.chunkSize = c, !.numChunks = Ceil(totalSize - startByte, c)]
     IN /\ rd' = RdAfterChunk(frame)
        /\ pending' = IF frame.numChunks = 0 THEN clearDownloadState(pending, DownloadKey) ELSE pending
  /\ UNCHANGED <<trackerVars, up, lf, store, activity, rs, dl, fd, bk, fx, rs2>>

(* one turn of the loop: the ranged GetObject and its body arrive, the
   progress callback, saveDownloadState; after the last turn the return *)
RdChunk ==
  /\ rd.pc = "chunk"
  /\ LET start == rd.startByte + rd.i * rd.chunkSize
         end == Min(start + rd.chunkSize, rd.totalSize) - 1
         downloaded == end + 1
         frame == [rd EXCEPT !.i = @ + 1,
                             !.ranges = Append(@, <<start, end>>),
                             !.chunks = Append(@, RangeBody(start, end)),
                             !.progress = Append(@, downloaded)]
         saved == saveDownloadState(pending, DownloadKey, downloaded, rd.totalSize)
     IN \/ /\ rd' = RdAfterChunk(frame)
           /\ pending' = IF rd'.pc = "returned" THEN clearDownloadState(saved, DownloadKey) ELSE saved
        \/ /\ rd' = [rd EXCEPT !.pc = "threw", !.err = NetworkError]
           /\ UNCHANGED pending
  /\ UNCHANGED <<trackerVars, up, lf, store, activity, rs, dl, fd, bk, fx, rs2>>

NextResume ==
  \/ \E size \in ResumeSizes : CallSaveUploadState(size)
  \/ ResumeSaved
  \/ RList
  \/ RPart
  \/ RComplete
  \/ \E totalSize \in 1..MaxDownloadSize : \E startByte \in 0..totalSize : RdStart(totalSize, startByte)
  \/ RdChunk

SpecResume == Init /\ [][NextResume]_vars

(* C26: once resumeMultipartUpload has succeeded getSavedUploadState(key) is
   null, and once resumableDownload has succeeded getSavedDownloadState(key)
   is null; while a resumable download runs, after each chunk the record of
   its key holds the offset just confirmed, and these offsets only increase. *)
C26_NoRecordAfterSuccess ==
  /\ (lf.fn = "resumeMultipartUpload" /\ lf.pc = "returned")
       => getSavedUploadState(pending, UploadKey) = Null
  /\ rd.pc = "returned" => getSavedDownloadState(pending, DownloadKey) = Null
  /\ (rd.pc = "chunk" /\ rd.i > 0) =>
       /\ getSavedDownloadState(pending, DownloadKey) # Null
       /\ pending.downloads[DownloadKey].downloadedBytes = rd.progress[rd.i]
       /\ \A k \in 1..(rd.i - 1) : rd.progress[k] < rd.progress[k + 1]

(* C30: resumableDownload requests contiguous, non-overlapping byte ranges
   that exactly cover [startByte, totalSize), and the blob it returns is the
   whole object of totalSize bytes for every startByte in 0..totalSize. *)
C30_ResumedBlobIsWhole ==
  /\ \A k \in DOMAIN rd.ranges :
       /\ rd.ranges[k][1] = (IF k = 1 THEN rd.startByte ELSE rd.ranges[k - 1][2] + 1)
       /\ rd.ranges[k][1] <= rd.ranges[k][2]
  /\ rd.pc = "returned" =>
       /\ rd.startByte < rd.totalSize => rd.ranges[Len(rd.ranges)][2] = rd.totalSize - 1
       /\ rd.startByte = rd.totalSize => rd.ranges = <<>>
       /\ rd.blob = RangeBody(0, rd.totalSize - 1)

----------------------------------------------------------------------------
(* Two restoreFromGlacier calls on the same key, e.g. from two views of the
   same object; the second call is made without a tracker handle *)

Restore2Start ==
  /\ rs2.pc = "idle"
  /\ rs2' = [IdleRs EXCEPT !.pc = "check"]
  /\ UNCHANGED <<trackerVars, up, lf, store, activity, rs, dl, fd, bk, fx, rd, pending>>

(* the second call: await checkGlacierStatus(key), the two early returns, and
   the RestoreObjectCommand it sends otherwise *)
Rs2Check ==
  /\ rs2.pc = "check"
  /\ \/ LET st == checkGlacierStatus(HeadObject(store.object)) IN
          IF st.ongoingRequest
          THEN /\ rs2' = [rs2 EXCEPT !.pc = "returned", !.result = "return", !.status = "in_progress"]
               /\ UNCHANGED store
          ELSE IF st.isReady
          THEN /\ rs2' = [rs2 EXCEPT !.pc = "returned", !.result = "return", !.status = "completed"]
               /\ UNCHANGED store
          ELSE /\ rs2' = [rs2 EXCEPT !.pc = "request"]
               /\ store' = [store EXCEPT !.restoreRequests = @ + 1]
     \/ /\ rs2' = RestoreCatch(rs2, NetworkError)
        /\ UNCHANGED store
  /\ UNCHANGED <<trackerVars, up, lf, activity, rs, dl, fd, bk, fx, rd, pending>>

(* the store answers the second call's restore request *)
Rs2Request ==
  /\ rs2.pc = "request"
  /\ \/ /\ store.object = "archived"
        /\ store' = [store EXCEPT !.object = "ongoing"]
        /\ rs2' = [rs2 EXCEPT !.pc = "returned", !.result = "return", !.status = "initiated"]
     \/ /\ rs2' = RestoreCatch(rs2, NetworkError)
        /\ UNCHANGED store
  /\ UNCHANGED <<trackerVars, up, lf, activity, rs, dl, fd, bk, fx, rd, pending>>

(* the key is archived and no restore was ever requested for it *)
InitRace ==
  /\ InitRestore
  /\ store.object = "archived"

NextRace ==
  \/ \E ctx \in BOOLEAN : RestoreStart(ctx)
  \/ RsCheck
  \/ RsRequest
  \/ RsPollFire
  \/ RsPollCheck
  \/ Restore2Start
  \/ Rs2Check
  \/ Rs2Request
  \/ StoreRestored

SpecRace == InitRace /\ [][NextRace]_vars

(* C27: for any interleaving of two restoreFromGlacier calls on the same
   archived, never restored key there are never two restore requests
   outstanding at the store, and when both calls have returned exactly one
   request was issued: one call returned initiated and the other found the
   restore under way (in_progress) or done (completed). *)
C27_OneRestoreRequest ==
  /\ ~(rs.pc = "request" /\ rs2.pc = "request")
  /\ (rs.pc = "returned" /\ rs2.pc = "returned") =>
       /\ store.restoreRequests = 1
       /\ \/ rs.status = "initiated" /\ rs2.status \in {"in_progress", "completed"}
          \/ rs2.status = "initiated" /\ rs.status \in {"in_progress", "completed"}

----------------------------------------------------------------------------
(* Engine callbacks on a paused Transfer *)

(* C28: while a Transfer is paused, the progress and completion callbacks of
   the engine that started it (updateTransferProgress, completeTransfer)
   change nothing on it: its status stays paused, its loaded bytes and
   progress stay as they were at the pause, its rate stays 0 and its ETA unset. *)
C28_PausedFrozen ==
  [][ \A i \in DOMAIN transfers :
        (/\ transfers[i].status = "paused"
         /\ ret'.op \in {"progress", "complete"}
         /\ Len(transfers') = Len(transfers))
          => transfers'[i] = transfers[i] ]_vars

----------------------------------------------------------------------------
(* Termination of the Transfers the batch engines register *)

(* every step of downloadFolderEnhanced and restoreFromGlacierBulk that can be
   taken is taken eventually: every store call returns or fails *)
SpecBatchFair == InitBatch /\ [][NextBatch]_vars /\ WF_vars(NextBatch)

(* a registered Transfer that is not yet completed, in error or cancelled *)
TransferOpen ==
  \E i \in DOMAIN transfers : transfers[i].status \in {"in_progress", "initiating", "compressing"}

(* C29: every Transfer that an engine operation registers eventually reaches
   completed, error or cancelled, provided every store call eventually returns
   or fails: no Transfer stays in_progress, initiating or compressing forever. *)
C29_TransfersTerminate == TransferOpen ~> ~TransferOpen

====
